---- MODULE Spec2Model ----
\* Conditional formatting engine of reportlabcustom (src/src/reportlabcustom/utils.py):
\* evaluate_formatting_rules(df, rules) and the colour helpers it calls.
\*
\* Python values are modelled as tagged records, Python strings as sequences of
\* one-character strings, so that str(), float(), lower(), strip(), substring
\* search, hex parsing and date parsing are computed rather than assumed.
\* A DataFrame is a record of its column names and its rows (default RangeIndex,
\* unique column names, object-typed rows: cells keep their Python type).
EXTENDS Integers, Sequences, FiniteSets, TLC

\* ---------------------------------------------------------------------------
\* Python scalar values
\* ---------------------------------------------------------------------------
None_ == [t |-> "none", n |-> 0, s |-> <<>>]
NaN == [t |-> "nan", n |-> 0, s |-> <<>>]
Missing == [t |-> "missing", n |-> 0, s |-> <<>>]   \* key absent from a dict
PyInt(k) == [t |-> "int", n |-> k, s |-> <<>>]
PyStr(cs) == [t |-> "str", n |-> 0, s |-> cs]
\* a number as a count of halves, so that (min + max) / 2 stays exact
PyHalf(h) == [t |-> "half", n |-> h, s |-> <<>>]

\* sentinel for a string-valued dict key that is absent
NoKey == "<absent>"

\* dict.get(key, default) for a string-valued key
GetOr(field, default) == IF field = NoKey THEN default ELSE field

\* dict.get(key, default) for a value-valued key
GetVal(field, default) == IF field.t = "missing" THEN default ELSE field

\* dict.get(key) with no default: None when the key is absent
GetNone(field) == IF field.t = "missing" THEN None_ ELSE field

\* ---------------------------------------------------------------------------
\* str methods
\* ---------------------------------------------------------------------------
UpperLetters == <<"A","B","C","D","E","F","G","H","I","J","K","L","M",
                  "N","O","P","Q","R","S","T","U","V","W","X","Y","Z">>
LowerLetters == <<"a","b","c","d","e","f","g","h","i","j","k","l","m",
                  "n","o","p","q","r","s","t","u","v","w","x","y","z">>
DigitChars == <<"0","1","2","3","4","5","6","7","8","9">>

IndexIn(c, seq) == IF \E k \in 1..Len(seq) : seq[k] = c
                   THEN CHOOSE k \in 1..Len(seq) : seq[k] = c
                   ELSE 0

LowerAt(c, k) == IF k > 0 THEN LowerLetters[k] ELSE c
LowerChar(c) == LowerAt(c, IndexIn(c, UpperLetters))

\* str.lower()
Lower(s) == [k \in 1..Len(s) |-> LowerChar(s[k])]

IsSpace(c) == c \in {" ", "\t", "\n"}

RECURSIVE LStrip(_)
LStrip(s) == IF s # <<>> /\ IsSpace(Head(s)) THEN LStrip(Tail(s)) ELSE s

RECURSIVE RStrip(_)
RStrip(s) == IF s # <<>> /\ IsSpace(s[Len(s)])
             THEN RStrip(SubSeq(s, 1, Len(s) - 1)) ELSE s

\* str.strip()
Strip(s) == RStrip(LStrip(s))

\* the Python expression `sub in s` for two strings
Contains(sub, s) ==
    \E k \in 0..(Len(s) - Len(sub)) : SubSeq(s, k + 1, k + Len(sub)) = sub

RECURSIVE Digits(_)
Digits(k) == IF k < 10 THEN <<DigitChars[k + 1]>>
             ELSE Digits(k \div 10) \o <<DigitChars[(k % 10) + 1]>>

\* str(int)
IntStr(k) == IF k < 0 THEN <<"-">> \o Digits(0 - k) ELSE Digits(k)

\* str(value) of a cell or a rule value
StrOf(v) ==
    CASE v.t = "str" -> v.s
      [] v.t = "int" -> IntStr(v.n)
      [] v.t = "none" -> <<"N","o","n","e">>
      [] v.t = "nan" -> <<"n","a","n">>
      [] OTHER -> <<>>

IsDigit(c) == IndexIn(c, DigitChars) > 0
DigitVal(c) == IndexIn(c, DigitChars) - 1

AllDigits(s) == s # <<>> /\ \A k \in 1..Len(s) : IsDigit(s[k])

RECURSIVE DigitsVal(_)
DigitsVal(s) == IF s = <<>> THEN 0
                ELSE 10 * DigitsVal(SubSeq(s, 1, Len(s) - 1)) + DigitVal(s[Len(s)])

\* float(text) of a stripped string: decimal digits, or 'nan'
FloatOfText(body) ==
    IF AllDigits(body) THEN [ok |-> TRUE, nan |-> FALSE, v |-> DigitsVal(body)]
    ELSE IF Lower(body) = <<"n","a","n">> THEN [ok |-> TRUE, nan |-> TRUE, v |-> 0]
    ELSE [ok |-> FALSE, nan |-> FALSE, v |-> 0]

\* float(value): [ok, nan, v]; ok = FALSE stands for ValueError / TypeError
ToFloat(v) ==
    CASE v.t = "int" -> [ok |-> TRUE, nan |-> FALSE, v |-> v.n]
      [] v.t = "nan" -> [ok |-> TRUE, nan |-> TRUE, v |-> 0]
      [] v.t = "str" -> FloatOfText(Strip(v.s))
      [] OTHER -> [ok |-> FALSE, nan |-> FALSE, v |-> 0]

\* ---------------------------------------------------------------------------
\* Comparison of Python values: TypeError on unlike types
\* ---------------------------------------------------------------------------
IsNumber(v) == v.t \in {"int", "half"}
Halves(v) == IF v.t = "int" THEN 2 * v.n ELSE v.n

AsciiOrder == <<" ", "#", "-">> \o DigitChars \o UpperLetters \o LowerLetters
CharCode(c) == IndexIn(c, AsciiOrder)

RECURSIVE StrLess(_, _)
StrLess(a, b) ==
    IF b = <<>> THEN FALSE
    ELSE IF a = <<>> THEN TRUE
    ELSE IF Head(a) = Head(b) THEN StrLess(Tail(a), Tail(b))
    ELSE CharCode(Head(a)) < CharCode(Head(b))

\* a < b and a <= b are defined (no TypeError) for two numbers (NaN included)
\* and for two strings
Comparable(a, b) ==
    \/ (IsNumber(a) \/ a.t = "nan") /\ (IsNumber(b) \/ b.t = "nan")
    \/ a.t = "str" /\ b.t = "str"

\* a < b for comparable values
PyLess(a, b) ==
    CASE IsNumber(a) /\ IsNumber(b) -> Halves(a) < Halves(b)
      [] a.t = "str" /\ b.t = "str" -> StrLess(a.s, b.s)
      [] OTHER -> FALSE

\* a == b, which never raises
PyEq(a, b) ==
    CASE IsNumber(a) /\ IsNumber(b) -> Halves(a) = Halves(b)
      [] a.t = "str" /\ b.t = "str" -> a.s = b.s
      [] a.t = "none" /\ b.t = "none" -> TRUE
      [] OTHER -> FALSE

\* a <= b for comparable values
PyLessEq(a, b) == PyLess(a, b) \/ (a.t # "nan" /\ PyEq(a, b))

\* ---------------------------------------------------------------------------
\* Colour helpers (utils.py, "Color helpers")
\* ---------------------------------------------------------------------------
HexLower == <<"0","1","2","3","4","5","6","7","8","9","a","b","c","d","e","f">>

IsHexChar(c) == IndexIn(LowerChar(c), HexLower) > 0
HexVal(c) == IndexIn(LowerChar(c), HexLower) - 1

\* str.lstrip('#')
RECURSIVE LStripHash(_)
LStripHash(s) == IF s # <<>> /\ Head(s) = "#" THEN LStripHash(Tail(s)) ELSE s

\* s[k:k+2] with Python's lenient slicing (k is 0-based)
Slice2(s, k) == SubSeq(s, k + 1, IF k + 2 <= Len(s) THEN k + 2 ELSE Len(s))

\* int(text, 16) on a slice of at most two characters: -1 stands for the
\* ValueError of anything but one or two hexadecimal digits
Int16(text) ==
    IF text # <<>> /\ \A k \in 1..Len(text) : IsHexChar(text[k])
    THEN (IF Len(text) = 1 THEN HexVal(text[1])
          ELSE 16 * HexVal(text[1]) + HexVal(text[2]))
    ELSE -1

\* the three channels of a string already stripped of '#'
Channels(h) == <<Int16(Slice2(h, 0)), Int16(Slice2(h, 2)), Int16(Slice2(h, 4))>>

\* hex_to_rgb: a channel of -1 stands for ValueError
hex_to_rgb(hex_color) == Channels(LStripHash(hex_color))

RgbOk(rgb) == \A k \in 1..3 : rgb[k] >= 0

\* '{:02x}' of a channel
Hex2(k) == IF k < 16 THEN <<"0", HexLower[k + 1]>>
           ELSE <<HexLower[(k \div 16) + 1], HexLower[(k % 16) + 1]>>

\* rgb_to_hex of channels given as exact fractions num/den (den > 0, num >= 0):
\* int() truncates each channel
rgb_to_hex(nums, den) ==
    <<"#">> \o Hex2(nums[1] \div den) \o Hex2(nums[2] \div den) \o Hex2(nums[3] \div den)

Raise(kind) == [ok |-> FALSE, exc |-> kind, color |-> <<>>]
Return(color) == [ok |-> TRUE, exc |-> "", color |-> color]

\* rgb1[k] + (rgb2[k] - rgb1[k]) * factor for factor = fnum/fden, then rgb_to_hex
Blend(rgb1, rgb2, fnum, fden) ==
    IF ~RgbOk(rgb1) \/ ~RgbOk(rgb2) THEN Raise("ValueError")
    ELSE Return(rgb_to_hex([k \in 1..3 |-> rgb1[k] * fden + (rgb2[k] - rgb1[k]) * fnum],
                           fden))

\* interpolate_color(color1, color2, factor) with factor = fnum/fden
interpolate_color(color1, color2, fnum, fden) ==
    Blend(hex_to_rgb(color1), hex_to_rgb(color2), fnum, fden)

\* the interpolation between two stops; a zero span is a division by zero
Between(value, lo, hi, color_lo, color_hi) ==
    IF Halves(hi) = Halves(lo) THEN Raise("ZeroDivisionError")
    ELSE interpolate_color(color_lo, color_hi,
                           Halves(value) - Halves(lo), Halves(hi) - Halves(lo))

\* variant: value < min_val and value > max_val as the first two tests
get_gradient_color_strict_ends(value, min_val, mid_val, max_val, colors) ==
    IF ~Comparable(value, min_val) THEN Raise("TypeError")
    ELSE IF PyLess(value, min_val) THEN Return(colors[1])
    ELSE IF ~Comparable(value, max_val) THEN Raise("TypeError")
    ELSE IF PyLess(max_val, value) THEN Return(colors[3])
    ELSE IF ~Comparable(value, mid_val) THEN Raise("TypeError")
    ELSE IF PyLessEq(value, mid_val)
    THEN Between(value, min_val, mid_val, colors[1], colors[2])
    ELSE Between(value, mid_val, max_val, colors[2], colors[3])

\* variant: colors[1] itself when value == mid_val
get_gradient_color_mid_stop(value, min_val, mid_val, max_val, colors) ==
    IF ~Comparable(value, min_val) THEN Raise("TypeError")
    ELSE IF PyLessEq(value, min_val) THEN Return(colors[1])
    ELSE IF ~Comparable(value, max_val) THEN Raise("TypeError")
    ELSE IF PyLessEq(max_val, value) THEN Return(colors[3])
    ELSE IF ~Comparable(value, mid_val) THEN Raise("TypeError")
    ELSE IF PyEq(value, mid_val) THEN Return(colors[2])
    ELSE IF PyLessEq(value, mid_val)
    THEN Between(value, min_val, mid_val, colors[1], colors[2])
    ELSE Between(value, mid_val, max_val, colors[2], colors[3])

\* get_gradient_color(value, min_val, mid_val, max_val, colors): value is a
\* number; a stop it cannot be compared with raises TypeError where that
\* comparison is reached
get_gradient_color(value, min_val, mid_val, max_val, colors) ==
    IF ~Comparable(value, min_val) THEN Raise("TypeError")
    ELSE IF PyLessEq(value, min_val) THEN Return(colors[1])
    ELSE IF ~Comparable(value, max_val) THEN Raise("TypeError")
    ELSE IF PyLessEq(max_val, value) THEN Return(colors[3])
    ELSE IF ~Comparable(value, mid_val) THEN Raise("TypeError")
    ELSE IF PyLessEq(value, mid_val)
    THEN Between(value, min_val, mid_val, colors[1], colors[2])
    ELSE Between(value, mid_val, max_val, colors[2], colors[3])

\* ---------------------------------------------------------------------------
\* Dates: pd.to_datetime and datetime.date
\* ---------------------------------------------------------------------------
IsLeap(y) == (y % 4 = 0 /\ y % 100 # 0) \/ y % 400 = 0

DaysInMonth(y, m) ==
    IF m = 2 THEN (IF IsLeap(y) THEN 29 ELSE 28)
    ELSE IF m \in {4, 6, 9, 11} THEN 30 ELSE 31

RECURSIVE DaysBeforeMonth(_, _)
DaysBeforeMonth(y, m) ==
    IF m = 1 THEN 0 ELSE DaysBeforeMonth(y, m - 1) + DaysInMonth(y, m - 1)

\* date(y, m, d).toordinal(): proleptic Gregorian ordinal, 0001-01-01 is day 1
ToOrdinal(y, m, d) ==
    365 * (y - 1) + ((y - 1) \div 4) - ((y - 1) \div 100) + ((y - 1) \div 400)
    + DaysBeforeMonth(y, m) + d

EpochOrdinal == ToOrdinal(1970, 1, 1)

NaT == [ok |-> FALSE, day |-> 0, ns |-> 0]
Timestamp(day, ns) == [ok |-> TRUE, day |-> day, ns |-> ns]

DateOf(y, m, d) ==
    IF y >= 1 /\ m \in 1..12 /\ d >= 1 /\ d <= DaysInMonth(y, m)
    THEN Timestamp(ToOrdinal(y, m, d), 0)
    ELSE NaT

\* an ISO 'YYYY-MM-DD' string; anything else in the modelled value universe
\* (words, blanks) does not parse
ParseIsoDate(s) ==
    IF Len(s) = 10 /\ s[5] = "-" /\ s[8] = "-"
       /\ AllDigits(SubSeq(s, 1, 4)) /\ AllDigits(SubSeq(s, 6, 7))
       /\ AllDigits(SubSeq(s, 9, 10))
    THEN DateOf(DigitsVal(SubSeq(s, 1, 4)), DigitsVal(SubSeq(s, 6, 7)),
                DigitsVal(SubSeq(s, 9, 10)))
    ELSE NaT

\* pd.to_datetime(value, errors='coerce'); pd.isna(result) is ~result.ok.
\* A (small, non-negative) integer is a count of nanoseconds since the epoch.
to_datetime(v) ==
    CASE v.t = "str" -> ParseIsoDate(v.s)
      [] v.t = "int" -> IF v.n >= 0 THEN Timestamp(EpochOrdinal, v.n) ELSE NaT
      [] OTHER -> NaT

\* sign of a - b for two Timestamps, to the nanosecond
TsCmp(a, b) == IF a.day # b.day THEN a.day - b.day ELSE a.ns - b.ns

\* variant: '>=' and '<=' compared strictly
OpMatchStrict(op, cmp) ==
    \/ op \in {">", ">="} /\ cmp > 0
    \/ op \in {"<", "<="} /\ cmp < 0
    \/ op = "==" /\ cmp = 0

\* (op == '>' and a > b) or (op == '>=' and a >= b) or ... where cmp is the
\* sign of a - b; an operator outside the five matches nothing
OpMatch(op, cmp) ==
    \/ op = ">" /\ cmp > 0
    \/ op = ">=" /\ cmp >= 0
    \/ op = "<" /\ cmp < 0
    \/ op = "<=" /\ cmp <= 0
    \/ op = "==" /\ cmp = 0

\* ---------------------------------------------------------------------------
\* Style deltas, style-map entries, warnings
\* ---------------------------------------------------------------------------
\* a style dict with optional keys 'bg_color' and 'bold'
Style(has_bg, bg, has_bold, bold) ==
    [has_bg |-> has_bg, bg_color |-> bg, has_bold |-> has_bold, bold |-> bold]

\* the dict literal {'bg_color': bg} built by the colour scales
BgOnly(bg) == Style(TRUE, bg, FALSE, FALSE)

\* A style-map entry is a reference: alias = k > 0 is the style dict of rule k
\* itself (style_map[...][key] = style stores the rule's own dict), alias = 0 is
\* a dict created for this entry.
AliasOf(k) == [alias |-> k, own |-> Style(FALSE, <<>>, FALSE, FALSE)]
OwnDict(st) == [alias |-> 0, own |-> st]

\* one warning string: the f-string's template, its string arguments, its
\* count, the listed examples and the suffix
Warn(msg, arg, n, items, suffix) ==
    [msg |-> msg, arg |-> arg, n |-> n, items |-> items, suffix |-> suffix]
W0(msg) == Warn(msg, <<>>, 0, <<>>, "")
W1(msg, arg) == Warn(msg, arg, 0, <<>>, "")
WN(msg, arg, n) == Warn(msg, arg, n, <<>>, "")

\* ---------------------------------------------------------------------------
\* Inputs: DataFrames
\* ---------------------------------------------------------------------------
Columns == <<"Status", "Score", "Start", "End">>

RowA == <<PyStr(<<"A","c","t","i","v","e">>), PyInt(10), PyStr(<<"2","0","2","5","-","0","1","-","1","0">>), PyStr(<<"2","0","2","5","-","0","1","-","0","5">>)>>
RowB == <<PyStr(<<"U","n","k","n","o","w","n">>), PyInt(50), PyStr(<<"2","0","2","5","-","0","1","-","0","1">>), PyStr(<<"2","0","2","5","-","0","1","-","1","0">>)>>
RowC == <<PyStr(<<" ","N","o","r","t","h"," ">>), PyInt(90), PyStr(<<"s","o","o","n">>), None_>>
RowD == <<PyStr(<<"a","c","t","i","v","e">>), NaN, PyStr(<<"2","0","2","5","-","0","1","-","1","0">>), PyStr(<<"2","0","2","5","-","0","1","-","1","0">>)>>
RowE == <<PyStr(<<"P","e","n","d","i","n","g">>), PyStr(<<"h","i","g","h">>), None_, PyInt(7)>>

Frame(data) == [is_none |-> FALSE, columns |-> Columns, data |-> data]
\* None passed where a DataFrame is expected
NoFrame == [is_none |-> TRUE, columns |-> <<>>, data |-> <<>>]

DfEmpty == Frame(<<>>)
Df3 == Frame(<<RowA, RowB, RowC>>)
Df4 == Frame(<<RowA, RowB, RowC, RowD>>)
DfBad == Frame(<<RowE, RowE>>)
DfSame == Frame(<<RowA, RowA>>)
\* five distinct values in Status
Df5 == Frame(<<RowA, RowB, RowC, RowD, RowE>>)

DataFrames == {DfEmpty, Df3, Df4, DfBad, DfSame, NoFrame}

\* ---------------------------------------------------------------------------
\* Inputs: rules
\* ---------------------------------------------------------------------------
\* a condition dict with no key at all
Cond0 == [type |-> NoKey, value |-> Missing, operator |-> NoKey,
          compare_to |-> NoKey, compare_column |-> NoKey, scale_type |-> NoKey,
          color_map |-> <<>>, mode |-> NoKey, has_colors |-> FALSE, colors |-> <<>>,
          min |-> Missing, mid |-> Missing, max |-> Missing]

Rule(scope, target_column, condition, style) ==
    [scope |-> scope, target_column |-> target_column,
     condition |-> condition, style |-> style]

StyleRed == Style(TRUE, <<"#","F","F","0","0","0","0">>, TRUE, TRUE)
StyleBlue == Style(TRUE, <<"#","0","0","0","0","F","F">>, FALSE, FALSE)
StyleWhite == Style(TRUE, <<"#","F","F","F","F","F","F">>, TRUE, FALSE)

CondContains(v) == [Cond0 EXCEPT !.type = "contains", !.value = v]
CondEquals(v) == [Cond0 EXCEPT !.type = "equals", !.value = v]
CondNumeric(op, v) == [Cond0 EXCEPT !.type = "numeric", !.operator = op, !.value = v]
CondDateValue(op, v) == [Cond0 EXCEPT !.type = "date_compare", !.operator = op, !.value = v]
CondDateTo(op, to) == [Cond0 EXCEPT !.type = "date_compare", !.operator = op, !.compare_to = to]
CondDateColumn(op, col) ==
    [Cond0 EXCEPT !.type = "date_compare_column", !.operator = op, !.compare_column = col]
CondCategorical(map) ==
    [Cond0 EXCEPT !.type = "color_scale", !.scale_type = "categorical", !.color_map = map]
CondScaleAuto(kind) == [Cond0 EXCEPT !.type = "color_scale", !.scale_type = kind]
CondScaleColors(kind, colors) ==
    [Cond0 EXCEPT !.type = "color_scale", !.scale_type = kind,
                  !.has_colors = TRUE, !.colors = colors]
CondScaleManual(kind, lo, mid, hi) ==
    [Cond0 EXCEPT !.type = "color_scale", !.scale_type = kind, !.mode = "manual",
                  !.min = lo, !.mid = mid, !.max = hi]

ActiveMap == [k \in {<<"A","c","t","i","v","e">>} |-> <<"#","1","1","1","1","1","1">>]
StatusMap == [k \in {<<"A","c","t","i","v","e">>, <<"U","n","k","n","o","w","n">>, <<" ","N","o","r","t","h"," ">>} |->
                IF k = <<"A","c","t","i","v","e">> THEN <<"#","C","6","F","6","D","5">> ELSE <<"#","F","E","F","C","B","F">>]

TwoColors == <<<<"#","0","0","F","F","0","0">>, <<"#","F","F","0","0","0","0">>>>
BadHexColors == <<<<"#","G","G","0","0","0","0">>, <<"#","F","F","F","F","0","0">>, <<"#","F","F","0","0","0","0">>>>
GreyColors == <<<<"#","0","0","0","0","0","0">>, <<"#","8","0","8","0","8","0">>, <<"#","f","f","f","f","f","f">>>>

RowRules == {
    Rule("row", "Status", CondContains(PyStr(<<"a","c","t">>)), StyleRed),
    Rule("row", "Status", CondEquals(PyStr(<<"N","o","r","t","h">>)), StyleBlue),
    Rule("row", "Start", CondDateValue("<", PyStr(<<"2","0","2","5","-","0","1","-","0","8">>)), StyleBlue),
    Rule("row", "End", CondDateTo(">=", "today"), StyleRed),
    Rule("row", "Start", CondDateTo(">", "start_date"), StyleBlue),
    Rule("row", "Start", CondDateValue("<", PyStr(<<"s","o","m","e","d","a","y">>)), StyleRed),
    Rule("row", "End", [Cond0 EXCEPT !.type = "date_compare"], StyleRed),
    Rule("row", "Score", CondNumeric(">", PyInt(20)), StyleRed),
    Rule("row", "End", CondDateColumn("<", "Nope"), StyleRed),
    Rule("row", "Nope", CondContains(PyStr(<<"a","c","t">>)), StyleRed),
    Rule("row", NoKey, CondEquals(PyStr(<<"N","o","r","t","h">>)), StyleRed)
}

CellRules == {
    Rule("cell", "Status", CondEquals(PyStr(<<"N","o","r","t","h">>)), StyleRed),
    Rule("cell", "Status", CondContains(Missing), StyleBlue),
    Rule(NoKey, "Status", CondContains(PyStr(<<"A","C","T">>)), StyleRed),
    Rule("cell", "End", CondEquals(Missing), StyleBlue),
    Rule("cell", "Score", CondNumeric(">", PyInt(20)), StyleRed),
    Rule("cell", "Score", CondNumeric("<=", PyStr(<<"a","b","c">>)), StyleBlue),
    Rule("cell", "Score", CondNumeric("!=", PyInt(20)), StyleBlue),
    Rule("cell", "Start", CondDateValue("<", PyStr(<<"2","0","2","5","-","0","1","-","0","8">>)), StyleRed),
    Rule("cell", "End", CondDateTo("==", "today"), StyleBlue),
    Rule("cell", "End", CondDateTo("<", "end_date"), StyleBlue),
    Rule("cell", "Start", [Cond0 EXCEPT !.type = "date_compare"], StyleRed),
    Rule("cell", "End", CondDateColumn("<", "Start"), StyleRed),
    Rule("cell", "End", CondDateColumn("<", "Nope"), StyleRed),
    Rule("cell", "Status", CondCategorical(ActiveMap), StyleWhite),
    Rule("cell", "Status", CondCategorical(StatusMap), StyleWhite),
    Rule("cell", "Status", CondCategorical(<<>>), StyleWhite),
    Rule("cell", "Score", CondScaleAuto(NoKey), StyleWhite),
    Rule("cell", "Score", CondScaleColors("numeric", GreyColors), StyleBlue),
    Rule("cell", "Score", CondScaleColors("numeric", TwoColors), StyleBlue),
    Rule("cell", "Score", CondScaleColors("numeric", BadHexColors), StyleBlue),
    Rule("cell", "Score", CondScaleManual("numeric", PyInt(0), PyInt(50), PyInt(100)), StyleBlue),
    Rule("cell", "Score", CondScaleManual("numeric", PyInt(10), PyInt(10), PyInt(20)), StyleBlue),
    Rule("cell", "Score", CondScaleManual("numeric", PyInt(0), Missing, PyInt(100)), StyleBlue),
    Rule("cell", "Score", CondScaleManual("numeric", PyStr(<<"l","o","w">>), PyInt(50), PyInt(100)), StyleBlue),
    Rule("cell", "Score", CondScaleManual("numeric", PyStr(<<"a">>), PyStr(<<"b">>), PyStr(<<"c">>)), StyleBlue),
    Rule("cell", "Start", CondScaleAuto("date"), StyleWhite),
    Rule("cell", "Start", CondScaleColors("date", TwoColors), StyleWhite),
    Rule("cell", "Start",
         CondScaleManual("date", PyStr(<<"2","0","2","5","-","0","1","-","0","1">>), PyStr(<<"2","0","2","5","-","0","1","-","0","5">>), PyStr(<<"2","0","2","5","-","0","1","-","3","1">>)),
         StyleWhite),
    Rule("cell", "Start",
         CondScaleManual("date", PyStr(<<"2","0","2","5","-","0","1","-","0","5">>), PyStr(<<"2","0","2","5","-","0","1","-","0","5">>), PyStr(<<"2","0","2","5","-","0","1","-","3","1">>)),
         StyleWhite),
    Rule("cell", "Start",
         CondScaleManual("date", PyStr(<<"2","0","2","5","-","0","1","-","0","1">>), PyStr(<<"n","e","v","e","r">>), PyStr(<<"2","0","2","5","-","0","1","-","3","1">>)),
         StyleWhite),
    Rule("cell", "Status", CondScaleAuto("heat"), StyleWhite),
    Rule("cell", "Status", [Cond0 EXCEPT !.type = "regex"], StyleRed),
    Rule("cell", "Nope", CondEquals(PyStr(<<"N","o","r","t","h">>)), StyleRed),
    Rule("table", "Status", CondContains(PyStr(<<"a","c","t">>)), StyleRed)
}

Catalogue == RowRules \cup CellRules

MaxRules == 2
\* the rules of the catalogue that write the same rows and cells, warn or skip
Overlapping == {
    Rule("row", "Status", CondContains(PyStr(<<"a","c","t">>)), StyleRed),
    Rule("row", "End", CondDateTo(">=", "today"), StyleRed),
    Rule("row", "End", CondDateColumn("<", "Nope"), StyleRed),
    Rule("cell", "Status", CondContains(Missing), StyleBlue),
    Rule(NoKey, "Status", CondContains(PyStr(<<"A","C","T">>)), StyleRed),
    Rule("cell", "Status", CondCategorical(ActiveMap), StyleWhite),
    Rule("cell", "Score", CondScaleManual("numeric", PyInt(10), PyInt(10), PyInt(20)), StyleBlue),
    Rule("cell", "Nope", CondEquals(PyStr(<<"N","o","r","t","h">>)), StyleRed)
}

\* the rules arguments: every list of up to two catalogue rules, and the
\* longer lists of overlapping rules
RuleLists == UNION {[1..n -> IF n <= 2 THEN Catalogue ELSE Overlapping] : n \in 0..MaxRules}

RulesArgs == {[is_none |-> TRUE, list |-> <<>>]}
             \cup {[is_none |-> FALSE, list |-> l] : l \in RuleLists}

\* ---------------------------------------------------------------------------
\* Inputs: the environment (clock and module globals)
\* ---------------------------------------------------------------------------
\* the instant of the call (the UTC day as an ordinal and the UTC hour), the
\* host's local zone as an offset in hours, and the names start_date/end_date
\* as globals().get sees them (None_ when the module has no such global).
\* context is what the caller holds as the report's context dates: the function
\* has no parameter for it, and the module's globals hold it only if someone
\* has assigned them
Environments == {
    [instant |-> [day |-> ToOrdinal(2025, 1, 4), hour |-> 18], host_tz |-> -5,
     globals |-> [start_date |-> None_, end_date |-> None_],
     context |-> [start_date |-> PyStr(<<"2","0","2","5","-","0","1","-","0","8">>), end_date |-> PyStr(<<"2","0","2","5","-","0","1","-","2","0">>)]],
    [instant |-> [day |-> ToOrdinal(2025, 1, 10), hour |-> 3], host_tz |-> 8,
     globals |-> [start_date |-> PyStr(<<"2","0","2","5","-","0","1","-","0","8">>), end_date |-> PyStr(<<"l","a","t","e","r">>)],
     context |-> [start_date |-> PyStr(<<"2","0","2","5","-","0","1","-","0","8">>), end_date |-> PyStr(<<"l","a","t","e","r">>)]]
}

MaxCalls == 2

\* ---------------------------------------------------------------------------
\* State
\* ---------------------------------------------------------------------------
VARIABLES
    df,         \* the DataFrame argument
    rules,      \* the rules argument
    env,        \* clock and module globals
    hashOrder,  \* iteration order this process gives each set it has built
    pc,         \* "idle", "loop", "done" or "raised"
    i,          \* position of the for-loop over rules (1-based)
    rows,       \* style_map['rows']
    cells,      \* style_map['cells']
    warnings,   \* style_map['warnings']
    exc,        \* the exception that escaped, if any
    returned,   \* the StyleMaps returned so far, oldest first
    before,     \* history: style_map as it was when the latest rule began
    trace,      \* history: what each rule processed so far has assigned
    touched,    \* history: the entry of a returned StyleMap the caller has changed
    story,      \* what render_pdf_table has added to the story
    call,       \* a call of get_gradient_color: its arguments and its result
    parts       \* history: a rule list evaluated whole, then as two parts

vars == <<df, rules, env, hashOrder, pc, i, rows, cells, warnings, exc, returned,
          before, trace, touched, story, call, parts>>
inputs == <<df, rules, env>>

\* sg_tz = timezone(timedelta(hours=8)), in hours
sg_tz == 8

\* variant: datetime.now().date(), the date in the host's local zone
today_local == env.instant.day + ((env.instant.hour + env.host_tz) \div 24)

\* datetime.now(sg_tz).date(), as an ordinal
today == env.instant.day + ((env.instant.hour + sg_tz) \div 24)

EmptyMap == <<>>
StyleMap(r, c, w) == [rows |-> r, cells |-> c, warnings |-> w]

\* no entry changed by the caller; otherwise [n, kind, key] names the entry
NoTouch == [n |-> 0, kind |-> "", key |-> <<>>]

\* nothing rendered yet
NoStory == [n |-> 0, raised |-> "", printed |-> <<>>, table_data |-> <<>>,
            style_list |-> <<>>, section_config |-> <<>>]

\* the state before the first call, the DataFrame being one of frames
\* a call of get_gradient_color and what it gave; NoCall when there is none
GradientCall(value, min_val, mid_val, max_val, colors, done, result) ==
    [value |-> value, min_val |-> min_val, mid_val |-> mid_val, max_val |-> max_val,
     colors |-> colors, done |-> done, result |-> result]
NoCall == GradientCall(None_, None_, None_, None_, <<>>, FALSE, Raise(""))

\* no list evaluated in parts; otherwise the list, where it was cut, and how the
\* calls before the current one ended
NoParts == [whole |-> <<>>, at |-> 0, results |-> <<>>]

\* no call of evaluate_formatting_rules made yet
Idle ==
    /\ hashOrder = <<>>
    /\ pc = "idle"
    /\ i = 0
    /\ rows = EmptyMap
    /\ cells = EmptyMap
    /\ warnings = <<>>
    /\ exc = ""
    /\ returned = <<>>
    /\ before = StyleMap(EmptyMap, EmptyMap, <<>>)
    /\ trace = <<>>
    /\ touched = NoTouch
    /\ story = NoStory
    /\ parts = NoParts

InitOver(frames, args) ==
    /\ df \in frames
    /\ rules \in args
    /\ env \in Environments
    /\ Idle
    /\ call = NoCall

InitWith(frames) == InitOver(frames, RulesArgs)

Init == InitWith(DataFrames)

\* ---------------------------------------------------------------------------
\* evaluate_formatting_rules: entry, loop header, return
\* ---------------------------------------------------------------------------
\* variant: the early return reports the empty rule list as a warning
EnterReportingNoRules ==
    /\ \/ /\ rules.is_none \/ rules.list = <<>>
          /\ pc' = "done"
          /\ returned' = Append(returned, StyleMap(EmptyMap, EmptyMap, <<W0("no rules")>>))
       \/ /\ ~rules.is_none /\ rules.list # <<>>
          /\ pc' = "loop"
          /\ returned' = returned
    /\ i' = 1
    /\ rows' = EmptyMap
    /\ cells' = EmptyMap
    /\ warnings' = <<>>
    /\ exc' = ""
    /\ before' = StyleMap(EmptyMap, EmptyMap, <<>>)
    /\ trace' = <<>>
    /\ UNCHANGED <<inputs, touched, story, call, parts>>

\* if not rules: return {...}; otherwise a fresh style_map and the first rule
Enter ==
    /\ \/ /\ rules.is_none \/ rules.list = <<>>
          /\ pc' = "done"
          /\ returned' = Append(returned, StyleMap(EmptyMap, EmptyMap, <<>>))
       \/ /\ ~rules.is_none /\ rules.list # <<>>
          /\ pc' = "loop"
          /\ returned' = returned
    /\ i' = 1
    /\ rows' = EmptyMap
    /\ cells' = EmptyMap
    /\ warnings' = <<>>
    /\ exc' = ""
    /\ before' = StyleMap(EmptyMap, EmptyMap, <<>>)
    /\ trace' = <<>>
    /\ UNCHANGED <<inputs, touched, story, call, parts>>

Call ==
    /\ pc = "idle"
    /\ Enter
    /\ UNCHANGED hashOrder

\* a further call in the same process, with the same arguments
CallAgain ==
    /\ pc = "done"
    /\ Len(returned) < MaxCalls
    /\ Enter
    /\ UNCHANGED hashOrder

\* a further call with the same arguments in a new interpreter process, whose
\* string hashing is seeded anew
CallInNewProcess ==
    /\ pc = "done"
    /\ Len(returned) < MaxCalls
    /\ Enter
    /\ hashOrder' = <<>>

\* return style_map
ReturnMap ==
    /\ pc = "loop"
    /\ i > Len(rules.list)
    /\ pc' = "done"
    /\ returned' = Append(returned, StyleMap(rows, cells, warnings))
    /\ UNCHANGED <<inputs, hashOrder, i, rows, cells, warnings, exc, before, trace, touched, story, call, parts>>

\* ---------------------------------------------------------------------------
\* The loop body, one rule per step
\* ---------------------------------------------------------------------------
InLoop == pc = "loop" /\ i <= Len(rules.list)
rule == rules.list[i]
scope == GetOr(rule.scope, "cell")
condition == rule.condition
style == AliasOf(i)
target_column == rule.target_column
cond_type == condition.type

\* not target_column
NoTarget == target_column = NoKey \/ target_column = ""

\* target_column in df.columns
RECURSIVE Find(_, _, _)
Find(seq, x, k) == IF k > Len(seq) THEN 0
                   ELSE IF seq[k] = x THEN k ELSE Find(seq, x, k + 1)

InColumns(name) == Find(df.columns, name, 1) > 0

\* df.columns.get_loc(name), 0-based
get_loc(name) == Find(df.columns, name, 1) - 1

\* the positions df.iterrows() visits, as df.index.get_loc(idx) gives them
RowPositions == 0..(Len(df.data) - 1)

\* row[name] of the row at position r
CellAt(r, name) == df.data[r + 1][get_loc(name) + 1]

\* the assignments of one rule: key -> entry; the same entry for every key
NoWrites == <<>>
Const(keys, entry) == [k \in keys |-> entry]

\* variant: dict.setdefault(key, entries[key]), the first write stays
PutEachKeepingFirst(map, entries) ==
    [k \in (DOMAIN map) \cup (DOMAIN entries) |->
        IF k \in DOMAIN map THEN map[k] ELSE entries[k]]

\* variant: the dict is replaced by the entries of this rule
PutEachAlone(map, entries) == entries

\* dict[key] = entries[key] for every key of entries
PutEach(map, entries) ==
    [k \in (DOMAIN map) \cup (DOMAIN entries) |->
        IF k \in DOMAIN entries THEN entries[k] ELSE map[k]]

\* variant: the key without the header offset
CellKeyWithoutOffset(r, col_idx) == <<r, col_idx>>

\* the cells key of the row at position r: (position + 1, col_idx)
CellKey(r, col_idx) == <<r + 1, col_idx>>
CellKeys(matched, col_idx) == {CellKey(r, col_idx) : r \in matched}

\* the row position whose cells key is k
RowOfKey(k, col_idx) == CHOOSE r \in RowPositions : CellKey(r, col_idx) = k

\* variant: rule.setdefault('scope', 'cell') in place of rule.get('scope', 'cell')
NextRuleSettingScope(row_writes, cell_writes, new_warnings) ==
    /\ rows' = PutEach(rows, row_writes)
    /\ cells' = PutEach(cells, cell_writes)
    /\ warnings' = new_warnings
    /\ i' = i + 1
    /\ before' = StyleMap(rows, cells, warnings)
    /\ trace' = Append(trace, [rows |-> row_writes, cells |-> cell_writes])
    /\ rules' = [rules EXCEPT !.list[i].scope = GetOr(@, "cell")]
    /\ UNCHANGED <<df, env, pc, exc, returned, touched, story, call, parts>>

\* variant: a warning the list already holds is not appended again
RECURSIVE Once(_)
Once(ws) ==
    IF ws = <<>> THEN <<>>
    ELSE IF \E k \in 1..(Len(ws) - 1) : ws[k] = ws[Len(ws)]
         THEN Once(SubSeq(ws, 1, Len(ws) - 1))
         ELSE Append(Once(SubSeq(ws, 1, Len(ws) - 1)), ws[Len(ws)])
NextRuleOnceWarned(row_writes, cell_writes, new_warnings) ==
    /\ rows' = PutEach(rows, row_writes)
    /\ cells' = PutEach(cells, cell_writes)
    /\ warnings' = Once(new_warnings)
    /\ i' = i + 1
    /\ before' = StyleMap(rows, cells, warnings)
    /\ trace' = Append(trace, [rows |-> row_writes, cells |-> cell_writes])
    /\ UNCHANGED <<inputs, pc, exc, returned, touched, story, call, parts>>

\* the rule is over: on to the next one
NextRule(row_writes, cell_writes, new_warnings) ==
    /\ rows' = PutEach(rows, row_writes)
    /\ cells' = PutEach(cells, cell_writes)
    /\ warnings' = new_warnings
    /\ i' = i + 1
    /\ before' = StyleMap(rows, cells, warnings)
    /\ trace' = Append(trace, [rows |-> row_writes, cells |-> cell_writes])
    /\ UNCHANGED <<inputs, pc, exc, returned, touched, story, call, parts>>

\* an exception leaves the function: nothing is returned
Escape(kind, cell_writes, new_warnings) ==
    /\ pc' = "raised"
    /\ exc' = kind
    /\ cells' = PutEach(cells, cell_writes)
    /\ warnings' = new_warnings
    /\ before' = StyleMap(rows, cells, warnings)
    /\ trace' = Append(trace, [rows |-> NoWrites, cells |-> cell_writes])
    /\ UNCHANGED <<inputs, i, rows, returned, touched, story, call, parts>>

\* variant: the skipped rule is reported
SkipNoTargetWithWarning ==
    /\ pc = "loop" /\ i <= Len(rules.list)
    /\ GetOr(rules.list[i].scope, "cell") \in {"row", "cell"}
    /\ \/ rules.list[i].target_column \in {NoKey, ""}
       \/ ~df.is_none /\ Find(df.columns, rules.list[i].target_column, 1) = 0
    /\ NextRule(NoWrites, NoWrites, Append(warnings, W0("target column not found")))
    /\ UNCHANGED hashOrder

\* if not target_column or target_column not in df.columns: continue
\* (`or` short-circuits: df is not touched when target_column is falsy)
SkipNoTarget ==
    /\ InLoop
    /\ scope \in {"row", "cell"}
    /\ NoTarget \/ (~df.is_none /\ ~InColumns(target_column))
    /\ NextRule(NoWrites, NoWrites, warnings)
    /\ UNCHANGED hashOrder

\* df.columns on None: AttributeError
RaiseNoFrame ==
    /\ InLoop
    /\ scope \in {"row", "cell"}
    /\ ~NoTarget
    /\ df.is_none
    /\ Escape("AttributeError", NoWrites, warnings)
    /\ UNCHANGED hashOrder

\* neither 'row' nor 'cell': the loop body does nothing
OtherScope ==
    /\ InLoop
    /\ scope \notin {"row", "cell"}
    /\ NextRule(NoWrites, NoWrites, warnings)
    /\ UNCHANGED hashOrder

Dispatch(sc, ty) ==
    /\ InLoop
    /\ scope = sc
    /\ ~NoTarget
    /\ ~df.is_none
    /\ InColumns(target_column)
    /\ cond_type = ty

\* the keys of the rows whose cell in target_column satisfies a string test
\* variant: the cell's text is not lower-cased
RowContainsCaseSensitive(search) ==
    {r \in RowPositions : Contains(search, StrOf(CellAt(r, target_column)))}

\* row scope, 'contains'
RowContainsMatched(search) ==
    {r \in RowPositions : Contains(search, Lower(StrOf(CellAt(r, target_column))))}

RowContains ==
    /\ Dispatch("row", "contains")
    /\ NextRule(Const(RowContainsMatched(Lower(StrOf(GetVal(condition.value, PyStr(<<>>))))), style),
                  NoWrites,
                  warnings)
    /\ UNCHANGED hashOrder

\* variant: row scope compares the cell as it is
RowEqualsUntrimmed(val) ==
    {r \in RowPositions : StrOf(CellAt(r, target_column)) = StrOf(val)}

\* row scope, 'equals': the cell is stripped, the rule value is not
RowEqualsMatched(val) ==
    {r \in RowPositions : Strip(StrOf(CellAt(r, target_column))) = StrOf(val)}

RowEquals ==
    /\ Dispatch("row", "equals")
    /\ NextRule(Const(RowEqualsMatched(GetVal(condition.value, PyStr(<<>>))), style),
                  NoWrites,
                  warnings)
    /\ UNCHANGED hashOrder

\* cell scope, 'equals': no strip, and a missing value is None
CellEqualsMatched(val) ==
    {r \in RowPositions : StrOf(CellAt(r, target_column)) = StrOf(val)}

CellEquals ==
    /\ Dispatch("cell", "equals")
    /\ NextRule(NoWrites,
                  Const(CellKeys(CellEqualsMatched(GetNone(condition.value)), get_loc(target_column)), style),
                  warnings)
    /\ UNCHANGED hashOrder

\* cell scope, 'contains'
CellContains ==
    /\ Dispatch("cell", "contains")
    /\ NextRule(NoWrites,
                  Const(CellKeys(RowContainsMatched( Lower(StrOf(GetVal(condition.value, PyStr(<<>>))))), get_loc(target_column)), style),
                  warnings)
    /\ UNCHANGED hashOrder

\* the condition types each scope has a branch for
RowConditionTypes == {"contains", "equals", "date_compare"}
CellConditionTypes == {"equals", "contains", "numeric", "date_compare",
                       "date_compare_column", "color_scale"}
ScaleTypes == {"categorical", "numeric", "date"}

scale_type == GetOr(condition.scale_type, "numeric")

\* variant: the rule without a branch is reported
NoBranchWithWarning ==
    /\ InLoop
    /\ ~NoTarget
    /\ ~df.is_none
    /\ InColumns(target_column)
    /\ \/ scope = "row" /\ cond_type \notin RowConditionTypes
       \/ scope = "cell" /\ cond_type \notin CellConditionTypes
       \/ scope = "cell" /\ cond_type = "color_scale" /\ scale_type \notin ScaleTypes
    /\ NextRule(NoWrites,
                  NoWrites,
                  Append(warnings, W0("unsupported condition")))
    /\ UNCHANGED hashOrder

\* a cond_type the scope has no branch for: the if/elif chain falls through
NoBranch ==
    /\ InLoop
    /\ ~NoTarget
    /\ ~df.is_none
    /\ InColumns(target_column)
    /\ \/ scope = "row" /\ cond_type \notin RowConditionTypes
       \/ scope = "cell" /\ cond_type \notin CellConditionTypes
       \/ scope = "cell" /\ cond_type = "color_scale" /\ scale_type \notin ScaleTypes
    /\ NextRule(NoWrites,
                  NoWrites,
                  warnings)
    /\ UNCHANGED hashOrder

\* the float a cell parsed to, as a value
FloatValue(f) == IF f.nan THEN NaN ELSE PyInt(f.v)

\* variant: a sixth operator, '!='
NumericCompareWithNotEqual(op, num, thr) ==
    \/ op = ">" /\ Comparable(num, thr) /\ PyLess(thr, num)
    \/ op = ">=" /\ Comparable(num, thr) /\ PyLessEq(thr, num)
    \/ op = "<" /\ Comparable(num, thr) /\ PyLess(num, thr)
    \/ op = "<=" /\ Comparable(num, thr) /\ PyLessEq(num, thr)
    \/ op = "==" /\ PyEq(num, thr)
    \/ op = "!=" /\ ~PyEq(num, thr)

\* (op == '>' and num > thr) or ...: only the comparison of the rule's own
\* operator is evaluated; a TypeError is caught and the row is skipped
NumericCompare(op, num, thr) ==
    \/ op = ">" /\ Comparable(num, thr) /\ PyLess(thr, num)
    \/ op = ">=" /\ Comparable(num, thr) /\ PyLessEq(thr, num)
    \/ op = "<" /\ Comparable(num, thr) /\ PyLess(num, thr)
    \/ op = "<=" /\ Comparable(num, thr) /\ PyLessEq(num, thr)
    \/ op = "==" /\ PyEq(num, thr)

\* cell scope, 'numeric': float(cell) and the comparison are inside try/except
NumericMatch(op, cell, thr) ==
    ToFloat(cell).ok /\ NumericCompare(op, FloatValue(ToFloat(cell)), thr)

NumericMatched(op, thr) ==
    {r \in RowPositions : NumericMatch(op, CellAt(r, target_column), thr)}

CellNumeric ==
    /\ Dispatch("cell", "numeric")
    /\ NextRule(NoWrites,
                  Const(CellKeys(NumericMatched(GetOr(condition.operator, ">"), GetVal(condition.value, PyInt(0))), get_loc(target_column)), style),
                  warnings)
    /\ UNCHANGED hashOrder

\* bool(value) of a rule value
Truthy(v) ==
    CASE v.t = "str" -> v.s # <<>>
      [] v.t = "int" -> v.n # 0
      [] v.t = "nan" -> TRUE
      [] OTHER -> FALSE

\* The comparison date of a date_compare rule: [ok, day, warning]
Resolved(day) == [ok |-> TRUE, day |-> day, warning |-> W0("")]
Unresolved(warning) == [ok |-> FALSE, day |-> 0, warning |-> warning]

\* pd.isna(target_date) after pd.to_datetime(..., errors='coerce'), else .date()
FromParsed(ts, warning) == IF ts.ok THEN Resolved(ts.day) ELSE Unresolved(warning)

\* compare_to in ['start_date', 'end_date']: globals().get(compare_to)
FromGlobals(bound, compare_to, not_found_msg) ==
    IF bound.t = "none" THEN Unresolved(W1(not_found_msg, <<compare_to>>))
    ELSE FromParsed(to_datetime(bound),
                    W1("compare_to='{compare_to}' not parseable", <<compare_to>>))

\* elif compare_value: ... else: missing
FromValue(compare_value) ==
    IF Truthy(compare_value)
    THEN FromParsed(to_datetime(compare_value),
                    W1("Fixed date '{compare_value}' not parseable", StrOf(compare_value)))
    ELSE Unresolved(W0("date_compare missing 'compare_to' or 'value'"))

\* The two scopes differ only in the text of the 'not found' warning.
ResolveTargetDate(not_found_msg) ==
    IF condition.compare_to = "today" THEN Resolved(today)
    ELSE IF condition.compare_to \in {"start_date", "end_date"}
    THEN FromGlobals(env.globals[condition.compare_to], condition.compare_to, not_found_msg)
    ELSE FromValue(GetNone(condition.value))

\* rows whose cell parses as a date and whose date() satisfies the operator
DateMatched(op, target_day) ==
    {r \in RowPositions :
        /\ to_datetime(CellAt(r, target_column)).ok
        /\ OpMatch(op, to_datetime(CellAt(r, target_column)).day - target_day)}

\* parse_failures after the loop over a column
DateFailures(column) ==
    Cardinality({r \in RowPositions : ~to_datetime(CellAt(r, column)).ok})

\* variant: the count is reported even when it is zero
WithCountAlways(list, n, warning) == Append(list, warning)

\* if parse_failures: style_map['warnings'].append(...)
WithCount(list, n, warning) == IF n > 0 THEN Append(list, warning) ELSE list

\* row scope, 'date_compare'
RowDateStep(op, target) ==
    IF ~target.ok
    THEN NextRule(NoWrites,
                  NoWrites,
                  Append(warnings, target.warning))
    ELSE NextRule(Const(DateMatched(op, target.day), style),
                  NoWrites,
                  WithCount(warnings, DateFailures(target_column),
                            WN("date_compare on '{target_column}': {parse_failures} rows unparseable",
                               <<target_column>>, DateFailures(target_column))))

RowDateCompare ==
    /\ Dispatch("row", "date_compare")
    /\ RowDateStep(GetOr(condition.operator, ">"),
                   ResolveTargetDate("compare_to='{compare_to}' not found in context"))
    /\ UNCHANGED hashOrder

\* cell scope, 'date_compare'
CellDateStep(op, target) ==
    IF ~target.ok
    THEN NextRule(NoWrites,
                  NoWrites,
                  Append(warnings, target.warning))
    ELSE NextRule(NoWrites,
                  Const(CellKeys(DateMatched(op, target.day), get_loc(target_column)), style),
                  WithCount(warnings, DateFailures(target_column),
                            WN("'{target_column}' date comparison: {parse_failures} invalid dates",
                               <<target_column>>, DateFailures(target_column))))

CellDateCompare ==
    /\ Dispatch("cell", "date_compare")
    /\ CellDateStep(GetOr(condition.operator, ">"),
                    ResolveTargetDate("compare_to='{compare_to}' not found"))
    /\ UNCHANGED hashOrder

\* variant: only d1 is tested with pd.isna
BothParseTargetOnly(compare_column) ==
    {r \in RowPositions : to_datetime(CellAt(r, target_column)).ok}

\* rows where both d1 and d2 parse
BothParse(compare_column) ==
    {r \in RowPositions : /\ to_datetime(CellAt(r, target_column)).ok
                          /\ to_datetime(CellAt(r, compare_column)).ok}

\* rows where d1 op d2 holds: Timestamps are compared as they are
ColumnMatched(op, compare_column) ==
    {r \in BothParse(compare_column) :
        OpMatch(op, TsCmp(to_datetime(CellAt(r, target_column)),
                          to_datetime(CellAt(r, compare_column))))}

ColumnFailures(compare_column) == Cardinality(RowPositions \ BothParse(compare_column))

\* variant: a missing compare column is skipped without a warning
DateColumnStepSilent(op, compare_column) ==
    IF compare_column = NoKey \/ compare_column = "" \/ ~InColumns(compare_column)
    THEN NextRule(NoWrites, NoWrites, warnings)
    ELSE NextRule(NoWrites,
                  Const(CellKeys(ColumnMatched(op, compare_column), get_loc(target_column)), style),
                  WithCount(warnings, ColumnFailures(compare_column),
                            WN("'{target_column}' vs '{compare_column}': {parse_failures} invalid dates",
                               <<target_column, compare_column>>,
                               ColumnFailures(compare_column))))

\* cell scope, 'date_compare_column'
DateColumnStep(op, compare_column) ==
    IF compare_column = NoKey \/ compare_column = "" \/ ~InColumns(compare_column)
    THEN NextRule(NoWrites,
                  NoWrites,
                  Append(warnings,
                         W1("Compare column '{compare_column}' not found",
                            IF compare_column = NoKey THEN <<"None">> ELSE <<compare_column>>)))
    ELSE NextRule(NoWrites,
                  Const(CellKeys(ColumnMatched(op, compare_column), get_loc(target_column)), style),
                  WithCount(warnings, ColumnFailures(compare_column),
                            WN("'{target_column}' vs '{compare_column}': {parse_failures} invalid dates",
                               <<target_column, compare_column>>,
                               ColumnFailures(compare_column))))

CellDateCompareColumn ==
    /\ Dispatch("cell", "date_compare_column")
    /\ DateColumnStep(GetOr(condition.operator, ">"), condition.compare_column)
    /\ UNCHANGED hashOrder

\* ---------------------------------------------------------------------------
\* cell scope, 'color_scale'
\* ---------------------------------------------------------------------------
ColorScale(kind) ==
    /\ Dispatch("cell", "color_scale")
    /\ scale_type = kind

\* the values unmapped.add() receives, in the order of their first insertion
RECURSIVE InsertionOrder(_, _, _)
InsertionOrder(color_map, r, seen) ==
    IF r >= Len(df.data) THEN seen
    ELSE IF StrOf(CellAt(r, target_column)) \in DOMAIN color_map
            \/ \E k \in 1..Len(seen) : seen[k] = StrOf(CellAt(r, target_column))
    THEN InsertionOrder(color_map, r + 1, seen)
    ELSE InsertionOrder(color_map, r + 1, Append(seen, StrOf(CellAt(r, target_column))))

\* the orders in which iterating a set of these strings can yield them: the
\* order follows the strings' hashes, which are seeded per process
IterationOrders(inserted) ==
    {p \in [1..Len(inserted) -> {inserted[k] : k \in 1..Len(inserted)}] :
        \A a, b \in 1..Len(inserted) : a # b => p[a] # p[b]}

\* variant: list(unmapped)[:4]
FirstFour(seq) == SubSeq(seq, 1, IF Len(seq) < 4 THEN Len(seq) ELSE 4)

\* list(unmapped)[:3]
FirstThree(seq) == SubSeq(seq, 1, IF Len(seq) < 3 THEN Len(seq) ELSE 3)

\* rows whose stringified value is a key of color_map
Mapped(color_map) ==
    {r \in RowPositions : StrOf(CellAt(r, target_column)) \in DOMAIN color_map}

\* variant: {**style, 'bg_color': color_map[val]}, the rule's style kept
CategoricalEntriesWithStyle(color_map, col_idx) ==
    [k \in CellKeys(Mapped(color_map), col_idx) |->
        OwnDict([rule.style EXCEPT
                    !.has_bg = TRUE,
                    !.bg_color = color_map[StrOf(CellAt(RowOfKey(k, col_idx), target_column))]])]

\* cells[(pos + 1, col_idx)] = {'bg_color': color_map[val]}
CategoricalEntries(color_map, col_idx) ==
    [k \in CellKeys(Mapped(color_map), col_idx) |->
        OwnDict(BgOnly(color_map[StrOf(CellAt(RowOfKey(k, col_idx), target_column))]))]

UnmappedWarning(inserted, order) ==
    Warn("'{target_column}' categorical color scale: {len(unmapped)} unmapped values ({head}{suffix})",
         <<target_column>>, Len(inserted), FirstThree(order),
         IF Len(inserted) > 3 THEN "..." ELSE "")

\* categorical colour scale
CategoricalStep(color_map, col_idx, inserted) ==
    IF DOMAIN color_map = {}
    THEN /\ NextRule(NoWrites, NoWrites,
                     Append(warnings, W0("color_scale categorical missing 'color_map'")))
         /\ UNCHANGED hashOrder
    ELSE IF inserted = <<>>
    THEN /\ NextRule(NoWrites, CategoricalEntries(color_map, col_idx), warnings)
         /\ UNCHANGED hashOrder
    ELSE \E order \in IterationOrders(inserted) :
           /\ inserted \in DOMAIN hashOrder => order = hashOrder[inserted]
           /\ hashOrder' = [s \in (DOMAIN hashOrder) \cup {inserted} |->
                               IF s = inserted THEN order ELSE hashOrder[s]]
           /\ NextRule(NoWrites, CategoricalEntries(color_map, col_idx),
                       Append(warnings, UnmappedWarning(inserted, order)))

CategoricalScale ==
    /\ ColorScale("categorical")
    /\ CategoricalStep(condition.color_map, get_loc(target_column),
                       InsertionOrder(condition.color_map, 0, <<>>))

DefaultColors == <<<<"#","0","0","F","F","0","0">>, <<"#","F","F","F","F","0","0">>, <<"#","F","F","0","0","0","0">>>>
colors3 == IF condition.has_colors THEN condition.colors ELSE DefaultColors
mode == GetOr(condition.mode, "auto")

SetMin(S) == CHOOSE x \in S : \A y \in S : x <= y
SetMax(S) == CHOOSE x \in S : \A y \in S : x >= y
Range(f) == {f[x] : x \in DOMAIN f}

\* variant: mid_val = min_val + max_val, not halved
AutoStopsNotHalved(vals) ==
    [min |-> PyInt(SetMin(vals)), mid |-> PyInt(SetMin(vals) + SetMax(vals)),
     max |-> PyInt(SetMax(vals))]

\* min_val, mid_val, max_val of auto mode over the column's values
AutoStops(vals) ==
    [min |-> PyInt(SetMin(vals)), mid |-> PyHalf(SetMin(vals) + SetMax(vals)),
     max |-> PyInt(SetMax(vals))]

\* get_gradient_color of every value (row position -> result)
ColorOfRow(value, stops) ==
    [r \in DOMAIN value |->
        get_gradient_color(PyInt(value[r]), stops.min, stops.mid, stops.max, colors3)]

Failing(colorOf) == {r \in DOMAIN colorOf : ~colorOf[r].ok}

\* the rows the loop reaches before the first exception
Written(colorOf, failing) ==
    IF failing = {} THEN DOMAIN colorOf
    ELSE {r \in DOMAIN colorOf : r < SetMin(failing)}

LoopResult(colorOf, failing, col_idx) ==
    [exc |-> IF failing = {} THEN "" ELSE colorOf[SetMin(failing)].exc,
     entries |-> [k \in CellKeys(Written(colorOf, failing), col_idx) |->
                     OwnDict(BgOnly(colorOf[RowOfKey(k, col_idx)].color))]]

\* the loop `for idx, value in values: bg = get_gradient_color(...);
\* cells[(pos + 1, col_idx)] = {'bg_color': bg}` in row order: the entries
\* written, and the exception of the first row whose colour cannot be computed
GradientLoop(value, stops, col_idx) ==
    LoopResult(ColorOfRow(value, stops), Failing(ColorOfRow(value, stops)), col_idx)

FinishScale(loop, new_warnings) ==
    IF loop.exc = ""
    THEN NextRule(NoWrites, loop.entries, new_warnings)
    ELSE Escape(loop.exc, loop.entries, new_warnings)

\* variant: not (a <= b <= c), which lets equal stops through
NonDecreasing(a, b, c) ==
    IF ~Comparable(a, b) THEN "TypeError"
    ELSE IF ~PyLessEq(a, b) THEN "no"
    ELSE IF ~Comparable(b, c) THEN "TypeError"
    ELSE IF ~PyLessEq(b, c) THEN "no"
    ELSE "yes"

\* not (a < b < c): "TypeError" when a comparison that is reached raises
StrictlyIncreasing(a, b, c) ==
    IF ~Comparable(a, b) THEN "TypeError"
    ELSE IF ~PyLess(a, b) THEN "no"
    ELSE IF ~Comparable(b, c) THEN "TypeError"
    ELSE IF ~PyLess(b, c) THEN "no"
    ELSE "yes"

\* float(row[target_column]) of the rows where it succeeds and is not NaN
NumericValues ==
    [r \in {q \in RowPositions : /\ ToFloat(CellAt(q, target_column)).ok
                                 /\ ~ToFloat(CellAt(q, target_column)).nan} |->
        ToFloat(CellAt(r, target_column)).v]

ManualStops ==
    [min |-> GetNone(condition.min), mid |-> GetNone(condition.mid),
     max |-> GetNone(condition.max)]

\* manual mode of the numeric scale
NumericManual(numeric_values, stops, col_idx, ordered) ==
    IF stops.min.t = "none" \/ stops.mid.t = "none" \/ stops.max.t = "none"
    THEN NextRule(NoWrites, NoWrites,
                  Append(warnings, W0("color_scale manual requires valid min < mid < max")))
    ELSE IF ordered = "TypeError"
    THEN Escape("TypeError", NoWrites, warnings)
    ELSE IF ordered = "no"
    THEN NextRule(NoWrites, NoWrites,
                  Append(warnings, W0("color_scale manual requires valid min < mid < max")))
    ELSE FinishScale(GradientLoop(numeric_values, stops, col_idx), warnings)

NumericStep(numeric_values, col_idx) ==
    IF Len(colors3) # 3
    THEN NextRule(NoWrites, NoWrites,
                  Append(warnings, W0("color_scale numeric requires exactly 3 colors")))
    ELSE IF DOMAIN numeric_values = {}
    THEN NextRule(NoWrites, NoWrites,
                  Append(warnings, W1("'{target_column}' has no valid numeric values",
                                      <<target_column>>)))
    ELSE IF mode = "auto"
    THEN FinishScale(GradientLoop(numeric_values, AutoStops(Range(numeric_values)), col_idx),
                     warnings)
    ELSE NumericManual(numeric_values, ManualStops, col_idx,
                       StrictlyIncreasing(ManualStops.min, ManualStops.mid, ManualStops.max))

\* numeric colour scale
NumericScale ==
    /\ ColorScale("numeric")
    /\ NumericStep(NumericValues, get_loc(target_column))
    /\ UNCHANGED hashOrder

\* d.toordinal() of the rows whose cell parses as a date
DateValues ==
    [r \in {q \in RowPositions : to_datetime(CellAt(q, target_column)).ok} |->
        to_datetime(CellAt(r, target_column)).day]

\* manual mode of the date scale: pd.to_datetime(...).toordinal() of the three
\* stops inside try/except
DateManual(date_values, lo, mi, hi, col_idx, counted) ==
    IF ~lo.ok \/ ~mi.ok \/ ~hi.ok
    THEN NextRule(NoWrites, NoWrites, Append(counted, W0("date scale manual: invalid date(s)")))
    ELSE IF ~(lo.day < mi.day /\ mi.day < hi.day)
    THEN NextRule(NoWrites, NoWrites, Append(counted, W0("date scale requires min < mid < max")))
    ELSE FinishScale(GradientLoop(date_values,
                                  [min |-> PyInt(lo.day), mid |-> PyInt(mi.day),
                                   max |-> PyInt(hi.day)],
                                  col_idx),
                     counted)

DateStep(date_values, col_idx, counted) ==
    IF Len(colors3) # 3
    THEN NextRule(NoWrites, NoWrites,
                  Append(warnings, W0("color_scale date requires exactly 3 colors")))
    ELSE IF DOMAIN date_values = {}
    THEN NextRule(NoWrites, NoWrites,
                  Append(warnings, W1("'{target_column}' has no valid dates",
                                      <<target_column>>)))
    ELSE IF mode = "auto"
    THEN FinishScale(GradientLoop(date_values, AutoStops(Range(date_values)), col_idx),
                     counted)
    ELSE DateManual(date_values, to_datetime(GetNone(condition.min)),
                    to_datetime(GetNone(condition.mid)), to_datetime(GetNone(condition.max)),
                    col_idx, counted)

\* variant: the failures are not reported
DateScaleSilent ==
    /\ ColorScale("date")
    /\ DateStep(DateValues, get_loc(target_column), warnings)
    /\ UNCHANGED hashOrder

\* date colour scale, on the ordinals of the parsed dates
DateScale ==
    /\ ColorScale("date")
    /\ DateStep(DateValues, get_loc(target_column),
                WithCount(warnings, DateFailures(target_column),
                          WN("'{target_column}' date color scale: {failures} invalid dates",
                             <<target_column>>, DateFailures(target_column))))
    /\ UNCHANGED hashOrder

Next ==
    \/ Call
    \/ CallAgain
    \/ CallInNewProcess
    \/ ReturnMap
    \/ SkipNoTarget
    \/ RaiseNoFrame
    \/ OtherScope
    \/ NoBranch
    \/ RowContains
    \/ RowEquals
    \/ RowDateCompare
    \/ CellEquals
    \/ CellContains
    \/ CellNumeric
    \/ CellDateCompare
    \/ CellDateCompareColumn
    \/ CategoricalScale
    \/ NumericScale
    \/ DateScale

Spec == Init /\ [][Next]_vars

\* ---------------------------------------------------------------------------
\* The caller changes a StyleDelta of a StyleMap it was given
\* ---------------------------------------------------------------------------
Changed == <<"c","h","a","n","g","e","d">>

\* entry['bg_color'] = 'changed' on the dict the entry refers to: the rule's
\* own style dict when the entry was stored as `= style`, the entry's own dict
\* when it was built as {'bg_color': bg}
ChangeRowEntry(n, r) ==
    /\ rules' = [rules EXCEPT !.list[returned[n].rows[r].alias].style =
                     [@ EXCEPT !.has_bg = TRUE, !.bg_color = Changed]]
    /\ touched' = [n |-> n, kind |-> "rows", key |-> <<r>>]
    /\ UNCHANGED returned

ChangeCellEntry(n, k) ==
    /\ IF returned[n].cells[k].alias > 0
       THEN /\ rules' = [rules EXCEPT !.list[returned[n].cells[k].alias].style =
                            [@ EXCEPT !.has_bg = TRUE, !.bg_color = Changed]]
            /\ UNCHANGED returned
       ELSE /\ returned' = [returned EXCEPT ![n].cells[k].own =
                               [@ EXCEPT !.has_bg = TRUE, !.bg_color = Changed]]
            /\ UNCHANGED rules
    /\ touched' = [n |-> n, kind |-> "cells", key |-> k]

\* one change, to an entry of the first data row of a StyleMap returned
ChangeEntry ==
    /\ pc = "done"
    /\ touched.n = 0
    /\ \E n \in 1..Len(returned) :
          \/ /\ 0 \in DOMAIN returned[n].rows
             /\ ChangeRowEntry(n, 0)
          \/ \E k \in DOMAIN returned[n].cells :
                /\ k[1] = 1
                /\ ChangeCellEntry(n, k)
    /\ UNCHANGED <<df, env, hashOrder, pc, i, rows, cells, warnings, exc, before, trace, story, call, parts>>

InitCaller == InitWith({Df3, NoFrame})

NextCaller == Next \/ ChangeEntry

SpecCaller == InitCaller /\ [][NextCaller]_vars

\* ---------------------------------------------------------------------------
\* The evaluator over a column of five distinct values
\* ---------------------------------------------------------------------------
InitWide == InitWith({Df5, DfSame, NoFrame})

SpecWide == InitWide /\ [][Next]_vars

\* ---------------------------------------------------------------------------
\* render_pdf_table: the table section of the PDF, from the call of
\* evaluate_formatting_rules on (df is df_work, rules is formatting_rules)
\* ---------------------------------------------------------------------------
\* the style dict an entry refers to
StyleOf(entry) == IF entry.alias > 0 THEN rules.list[entry.alias].style ELSE entry.own

\* section_colors of the default theme
header_bg == <<"#","F","F","8","C","0","0">>
row_alt == <<"#","F","F","E","5","C","C">>

\* format specifications; NoFormat is None, what .get gives for an absent key
NoFormat == [type |-> NoKey, decimal_places |-> 0]
NumberFormat == [type |-> "number", decimal_places |-> 0]
DateFormat == [type |-> "date", decimal_places |-> 0]

\* section_config: cell_formats keyed by pairs, column_formats by column name
CellFormats == {<<>>, <<0, 2>> :> NumberFormat, <<1, 2>> :> NumberFormat}
ColumnFormats == {<<>>, "Start" :> DateFormat}
SectionConfigs ==
    {[cell_formats |-> cf, column_formats |-> colf] :
        cf \in CellFormats, colf \in ColumnFormats}

\* dict.get(key) of a format dict
GetFormat(formats, key) == IF key \in DOMAIN formats THEN formats[key] ELSE NoFormat

\* colors.HexColor of a '#RRGGBB' string: the colour's channels, or ValueError
\* when the digits are not hexadecimal
HexColor(val) ==
    IF val # <<>> /\ Head(val) = "#" /\ Len(val) = 7 /\ RgbOk(Channels(Tail(val)))
    THEN Return(Channels(Tail(val)))
    ELSE Raise("ValueError")

\* style_map['rows'].get(row_idx, {}) and style_map['cells'].get(cell_key, {})
NoEntry == Style(FALSE, <<>>, FALSE, FALSE)
row_style(style_map, row_idx) ==
    IF row_idx \in DOMAIN style_map.rows THEN StyleOf(style_map.rows[row_idx]) ELSE NoEntry
cell_key(row_idx, col_idx) == <<row_idx + 1, col_idx>>
cell_specific_style(style_map, row_idx, col_idx) ==
    IF cell_key(row_idx, col_idx) \in DOMAIN style_map.cells
    THEN StyleOf(style_map.cells[cell_key(row_idx, col_idx)])
    ELSE NoEntry

\* Priority: cell_formats > column_formats
format_spec(section_config, row_idx, col_idx) ==
    IF GetFormat(section_config.cell_formats, cell_key(row_idx, col_idx)) # NoFormat
    THEN GetFormat(section_config.cell_formats, cell_key(row_idx, col_idx))
    ELSE GetFormat(section_config.column_formats, df.columns[col_idx + 1])

\* Paragraph(format_value(value, format_spec), base_style): the value, the
\* specification it is formatted with and whether the bold style is the base
Paragraph(value, spec, bold) == [value |-> value, format_spec |-> spec, bold |-> bold]

use_bold(st) == st.has_bold /\ st.bold

table_row(style_map, section_config, row_idx) ==
    [c \in 1..Len(df.columns) |->
        Paragraph(df.data[row_idx + 1][c],
                  format_spec(section_config, row_idx, c - 1),
                  \/ use_bold(row_style(style_map, row_idx))
                  \/ use_bold(cell_specific_style(style_map, row_idx, c - 1)))]

\* the header row, then one row per data row
table_data(style_map, section_config) ==
    <<[c \in 1..Len(df.columns) |-> Paragraph(df.columns[c], NoFormat, TRUE)]>>
    \o [r \in 1..Len(df.data) |-> table_row(style_map, section_config, r - 1)]

\* one ('BACKGROUND', (c0, r0), (c1, r1), colour) command
Background(from, to, color) ==
    [op |-> "BACKGROUND", from |-> from, to |-> to, color |-> HexColor(color)]

\* for i in range(1, len(table_data)): if i % 2 == 0
Alternating(table_rows) ==
    [k \in 1..((table_rows - 1) \div 2) |-> Background(<<0, 2 * k>>, <<-1, 2 * k>>, row_alt)]

\* the loops over style_map['rows'].items() and style_map['cells'].items();
\* the commands of one loop cover disjoint regions, they are listed by key
FirstRow(keys) == CHOOSE k \in keys : \A j \in keys : k <= j
FirstCell(keys) ==
    CHOOSE k \in keys : \A j \in keys : k[1] < j[1] \/ (k[1] = j[1] /\ k[2] <= j[2])

RowCommand(style_map, row_idx) ==
    IF StyleOf(style_map.rows[row_idx]).has_bg
    THEN <<Background(<<0, row_idx + 1>>, <<-1, row_idx + 1>>,
                      StyleOf(style_map.rows[row_idx]).bg_color)>>
    ELSE <<>>

CellCommand(style_map, key) ==
    IF StyleOf(style_map.cells[key]).has_bg
    THEN <<Background(<<key[2], key[1]>>, <<key[2], key[1]>>,
                      StyleOf(style_map.cells[key]).bg_color)>>
    ELSE <<>>

RECURSIVE RowCommands(_, _)
RowCommands(style_map, keys) ==
    IF keys = {} THEN <<>>
    ELSE RowCommand(style_map, FirstRow(keys))
         \o RowCommands(style_map, keys \ {FirstRow(keys)})

RECURSIVE CellCommands(_, _)
CellCommands(style_map, keys) ==
    IF keys = {} THEN <<>>
    ELSE CellCommand(style_map, FirstCell(keys))
         \o CellCommands(style_map, keys \ {FirstCell(keys)})

\* the cell commands before the row commands
style_list_rows_last(style_map, table_rows) ==
    <<Background(<<0, 0>>, <<-1, 0>>, header_bg)>>
    \o Alternating(table_rows)
    \o CellCommands(style_map, DOMAIN style_map.cells)
    \o RowCommands(style_map, DOMAIN style_map.rows)

\* header, alternating rows, row-level formatting, cell-level formatting
style_list(style_map, table_rows) ==
    <<Background(<<0, 0>>, <<-1, 0>>, header_bg)>>
    \o Alternating(table_rows)
    \o RowCommands(style_map, DOMAIN style_map.rows)
    \o CellCommands(style_map, DOMAIN style_map.cells)

BadColor(commands) == \E k \in 1..Len(commands) : ~commands[k].color.ok

\* what the section leaves: the warnings printed, and the table appended to the
\* story unless a colour raised
Rendered(n, style_map, section_config) ==
    [n |-> n,
     raised |-> IF BadColor(style_list(style_map, Len(df.data) + 1))
                THEN "ValueError" ELSE "",
     printed |-> style_map.warnings,
     table_data |-> table_data(style_map, section_config),
     style_list |-> style_list(style_map, Len(df.data) + 1),
     section_config |-> section_config]

\* the section once evaluate_formatting_rules has returned to it
Render ==
    /\ pc = "done"
    /\ story.n = 0
    /\ ~df.is_none
    /\ Len(df.data) > 0
    /\ \E section_config \in SectionConfigs :
          story' = Rendered(Len(returned), returned[Len(returned)], section_config)
    /\ UNCHANGED <<df, rules, env, hashOrder, pc, i, rows, cells, warnings, exc,
                   returned, before, trace, touched, call, parts>>

\* rules whose style has no bg_color, and rules over the same rows and cells
StyleBold == Style(FALSE, <<>>, TRUE, TRUE)
RenderRules == {
    Rule("row", "Status", CondContains(PyStr(<<"n">>)), StyleBold),
    Rule("row", "Status", CondContains(PyStr(<<"n">>)), StyleRed),
    Rule("cell", "Status", CondContains(PyStr(<<"n">>)), StyleBold),
    Rule("cell", "Start", CondDateValue("<", PyStr(<<"2","0","2","5","-","0","1","-","0","8">>)), StyleBlue)
}
\* the rules arguments of the sections: None, the lists of at most one catalogue
\* rule and the lists of one or two of RenderRules
RenderLists ==
    UNION {[1..n -> Catalogue] : n \in 0..1} \cup UNION {[1..n -> RenderRules] : n \in 1..2}
RenderArgs ==
    {[is_none |-> TRUE, list |-> <<>>]} \cup {[is_none |-> FALSE, list |-> l] : l \in RenderLists}

InitRender == InitOver({Df3, DfSame, NoFrame}, RenderArgs)

NextRender == Next \/ Render

SpecRender == InitRender /\ [][NextRender]_vars

\* ---------------------------------------------------------------------------
\* get_gradient_color on its own
\* ---------------------------------------------------------------------------
MaxStop == 4
LowerColors == <<<<"#","0","0","f","f","0","0">>, <<"#","f","f","f","f","0","0">>, <<"#","f","f","0","0","0","0">>>>
ColorLists == {DefaultColors, LowerColors, GreyColors, BadHexColors}

\* value from -1 to MaxStop + 1 in steps of a half, stops min < mid < max
GradientCalls ==
    {GradientCall(PyHalf(h), PyInt(a), PyInt(b), PyInt(c), cs, FALSE, Raise("")) :
        h \in (-2)..(2 * MaxStop + 2),
        a \in 0..MaxStop, b \in 0..MaxStop, c \in 0..MaxStop,
        cs \in ColorLists}

ApplyGradient ==
    /\ ~call.done
    /\ call' = [call EXCEPT !.done = TRUE,
                            !.result = get_gradient_color(call.value, call.min_val,
                                                          call.mid_val, call.max_val,
                                                          call.colors)]
    /\ UNCHANGED <<df, rules, env, hashOrder, pc, i, rows, cells, warnings, exc,
                   returned, before, trace, touched, story, parts>>

InitGradient ==
    /\ df = NoFrame
    /\ rules = [is_none |-> TRUE, list |-> <<>>]
    /\ env \in Environments
    /\ Idle
    /\ call \in {g \in GradientCalls : g.min_val.n < g.mid_val.n /\ g.mid_val.n < g.max_val.n}

SpecGradient == InitGradient /\ [][ApplyGradient]_vars

\* the calls with min <= mid <= max, the stops auto mode and manual mode give
InitDegenerate ==
    /\ df = NoFrame
    /\ rules = [is_none |-> TRUE, list |-> <<>>]
    /\ env \in Environments
    /\ Idle
    /\ call \in {g \in GradientCalls : g.min_val.n <= g.mid_val.n /\ g.mid_val.n <= g.max_val.n}

SpecDegenerate == InitDegenerate /\ [][ApplyGradient]_vars

\* ---------------------------------------------------------------------------
\* A rule list evaluated whole, then as its first rules and as the rest
\* ---------------------------------------------------------------------------
\* how the call that has just ended came out, and the iteration orders of the
\* process it ran in
Outcome ==
    [exc |-> IF pc = "raised" THEN exc ELSE "",
     map |-> IF pc = "done" THEN returned[Len(returned)]
             ELSE StyleMap(EmptyMap, EmptyMap, <<>>),
     hashOrder |-> hashOrder]

\* evaluate_formatting_rules(df, list), in the process of the calls before
EvaluateList(list) ==
    /\ rules' = [is_none |-> FALSE, list |-> list]
    /\ \/ /\ list = <<>>
          /\ pc' = "done"
          /\ returned' = Append(returned, StyleMap(EmptyMap, EmptyMap, <<>>))
       \/ /\ list # <<>>
          /\ pc' = "loop"
          /\ returned' = returned
    /\ i' = 1
    /\ rows' = EmptyMap
    /\ cells' = EmptyMap
    /\ warnings' = <<>>
    /\ exc' = ""
    /\ before' = StyleMap(EmptyMap, EmptyMap, <<>>)
    /\ trace' = <<>>
    /\ UNCHANGED <<df, env, hashOrder, touched, story, call>>

\* the list has been evaluated: now its first k rules alone
FirstPart ==
    /\ pc \in {"done", "raised"}
    /\ parts = NoParts
    /\ ~rules.is_none
    /\ \E k \in 0..Len(rules.list) :
          /\ parts' = [whole |-> rules.list, at |-> k, results |-> <<Outcome>>]
          /\ EvaluateList(SubSeq(rules.list, 1, k))

\* then the rules after the first k alone
SecondPart ==
    /\ pc \in {"done", "raised"}
    /\ Len(parts.results) = 1
    /\ parts' = [parts EXCEPT !.results = Append(@, Outcome)]
    /\ EvaluateList(SubSeq(parts.whole, parts.at + 1, Len(parts.whole)))

InitParts == InitWith({Df3, NoFrame})

NextParts == Next \/ FirstPart \/ SecondPart

SpecParts == InitParts /\ [][NextParts]_vars

\* ---------------------------------------------------------------------------
\* The evaluator over the string conditions of both scopes
\* ---------------------------------------------------------------------------
TextConditions == {
    CondEquals(PyStr(<<"N","o","r","t","h">>)),
    CondEquals(PyStr(<<" ","N","o","r","t","h"," ">>)),
    CondEquals(Missing),
    CondContains(PyStr(<<"A","C","T">>)),
    CondContains(PyStr(<<>>)),
    CondContains(Missing)
}
TextRules ==
    {Rule(sc, col, cond, StyleRed) :
        sc \in {"row", "cell"}, col \in {"Status", "End"}, cond \in TextConditions}
\* the lists of at most one catalogue rule and the lists of one or two of
\* TextRules
TextLists ==
    UNION {[1..n -> Catalogue] : n \in 0..1} \cup UNION {[1..n -> TextRules] : n \in 1..2}
TextArgs ==
    {[is_none |-> TRUE, list |-> <<>>]} \cup {[is_none |-> FALSE, list |-> l] : l \in TextLists}

InitText == InitOver({Df3, Df4, NoFrame}, TextArgs)

SpecText == InitText /\ [][Next]_vars

\* ---------------------------------------------------------------------------
\* The evaluator at several instants, on hosts of several time zones
\* ---------------------------------------------------------------------------
TodayRules == {
    Rule("row", "End", CondDateTo("==", "today"), StyleRed),
    Rule("row", "Start", CondDateTo("<", "today"), StyleBlue),
    Rule("cell", "End", CondDateTo("==", "today"), StyleBlue),
    Rule("cell", "Start", CondDateTo(">=", "today"), StyleRed)
}
TodayLists ==
    UNION {[1..n -> Catalogue] : n \in 0..1} \cup UNION {[1..n -> TodayRules] : n \in 1..2}
TodayArgs ==
    {[is_none |-> TRUE, list |-> <<>>]} \cup {[is_none |-> FALSE, list |-> l] : l \in TodayLists}
\* UTC instants on both sides of 16:00 UTC, hosts west of, at and east of UTC
Clocks ==
    {[instant |-> [day |-> ToOrdinal(2025, 1, d), hour |-> h], host_tz |-> z,
      globals |-> [start_date |-> None_, end_date |-> None_],
      context |-> [start_date |-> None_, end_date |-> None_]] :
        d \in {4, 9}, h \in {3, 18}, z \in {-5, 0, 8}}

InitClock ==
    /\ df \in {Df3, NoFrame}
    /\ rules \in TodayArgs
    /\ env \in Clocks
    /\ Idle
    /\ call = NoCall

SpecClock == InitClock /\ [][Next]_vars

\* ---------------------------------------------------------------------------
\* The evaluator over rules whose scope has no branch for their condition
\* ---------------------------------------------------------------------------
\* conditions that rows of Df3 satisfy, each in both scopes and in a scope that
\* is neither
PlacedConditions == {
    [column |-> "Score", condition |-> CondNumeric(">", PyInt(20))],
    [column |-> "End", condition |-> CondDateColumn("<", "Start")],
    [column |-> "Status", condition |-> CondCategorical(StatusMap)],
    [column |-> "Score", condition |-> CondScaleAuto(NoKey)],
    [column |-> "Status", condition |-> [CondContains(PyStr(<<"a","c","t">>)) EXCEPT !.type = "regex"]],
    [column |-> "Status", condition |-> CondContains(PyStr(<<"a","c","t">>))]
}
PlacedRules ==
    {Rule(sc, p.column, p.condition, StyleRed) :
        sc \in {"row", "cell", "table"}, p \in PlacedConditions}
PlacedLists ==
    UNION {[1..n -> Catalogue] : n \in 0..1} \cup UNION {[1..n -> PlacedRules] : n \in 1..2}
PlacedArgs ==
    {[is_none |-> TRUE, list |-> <<>>]} \cup {[is_none |-> FALSE, list |-> l] : l \in PlacedLists}

InitPlaced == InitOver({Df3, NoFrame}, PlacedArgs)

SpecPlaced == InitPlaced /\ [][Next]_vars


\* ===========================================================================
\* Properties
\* ===========================================================================
\* vocabulary of the properties, in terms of the arguments and the history
ColumnIndex(name) == Find(df.columns, name, 1)
ScopeOf(r) == GetOr(r.scope, "cell")
MissingTarget(r) ==
    \/ r.target_column \in {NoKey, ""}
    \/ ~df.is_none /\ ColumnIndex(r.target_column) = 0
Applies(r) ==
    /\ ~df.is_none
    /\ r.target_column \notin {NoKey, ""}
    /\ ColumnIndex(r.target_column) > 0
NoRules == rules.is_none \/ rules.list = <<>>
ZeroRows == ~df.is_none /\ df.columns # <<>> /\ df.data = <<>>

\* a rule has just been processed; it is rules.list[i - 1]
Processed == pc \in {"loop", "done"} /\ i >= 2
last == rules.list[i - 1]
Untouched == rows = before.rows /\ cells = before.cells
WarnedOnly ==
    /\ Untouched
    /\ Len(warnings) > Len(before.warnings)
    /\ SubSeq(warnings, 1, Len(before.warnings)) = before.warnings


RowWriters(k) == {j \in 1..Len(trace) : k \in DOMAIN trace[j].rows}
CellWriters(k) == {j \in 1..Len(trace) : k \in DOMAIN trace[j].cells}

\* the rule defects
UnresolvableDate(r) ==
    /\ ScopeOf(r) \in {"row", "cell"}
    /\ r.condition.type = "date_compare"
    /\ IF r.condition.compare_to = "today" THEN FALSE
       ELSE IF r.condition.compare_to \in {"start_date", "end_date"}
       THEN ~to_datetime(env.globals[r.condition.compare_to]).ok
       ELSE \/ ~Truthy(GetNone(r.condition.value))
            \/ ~to_datetime(GetNone(r.condition.value)).ok
MissingCompare(r) ==
    /\ r.condition.type = "date_compare_column"
    /\ Applies(r)
    /\ \/ r.condition.compare_column \in {NoKey, ""}
       \/ ColumnIndex(r.condition.compare_column) = 0
IsScale(r, kinds) ==
    /\ ScopeOf(r) = "cell"
    /\ r.condition.type = "color_scale"
    /\ GetOr(r.condition.scale_type, "numeric") \in kinds
NoColorMap(r) == IsScale(r, {"categorical"}) /\ DOMAIN r.condition.color_map = {}
WrongColors(r) ==
    /\ IsScale(r, {"numeric", "date"})
    /\ r.condition.has_colors
    /\ Len(r.condition.colors) # 3
IsManual(r) == GetOr(r.condition.mode, "auto") # "auto"
StopAbsent(v) == v.t \in {"missing", "none"}
NumericStopsBad(c) ==
    \/ StopAbsent(c.min) \/ StopAbsent(c.mid) \/ StopAbsent(c.max)
    \/ /\ IsNumber(c.min) /\ IsNumber(c.mid) /\ IsNumber(c.max)
       /\ ~(Halves(c.min) < Halves(c.mid) /\ Halves(c.mid) < Halves(c.max))
DateStopsBad(c) ==
    \/ StopAbsent(c.min) \/ StopAbsent(c.mid) \/ StopAbsent(c.max)
    \/ /\ to_datetime(c.min).ok /\ to_datetime(c.mid).ok /\ to_datetime(c.max).ok
       /\ ~(/\ to_datetime(c.min).day < to_datetime(c.mid).day
            /\ to_datetime(c.mid).day < to_datetime(c.max).day)
BadManual(r) ==
    /\ IsManual(r)
    /\ \/ IsScale(r, {"numeric"}) /\ NumericStopsBad(r.condition)
       \/ IsScale(r, {"date"}) /\ DateStopsBad(r.condition)
NothingParses(r) ==
    \/ /\ IsScale(r, {"numeric"})
       /\ \A q \in RowPositions :
            ~ToFloat(CellAt(q, r.target_column)).ok \/ ToFloat(CellAt(q, r.target_column)).nan
    \/ /\ IsScale(r, {"date"})
       /\ \A q \in RowPositions : ~to_datetime(CellAt(q, r.target_column)).ok
Defective(r) ==
    \/ UnresolvableDate(r)
    \/ NoColorMap(r)
    \/ WrongColors(r)
    \/ BadManual(r)
    \/ NothingParses(r)

\* C1 (as stated): for every dataset and every rule list, malformed rules
\* included, no error escapes evaluate_formatting_rules.
C1_NoErrorEscapes == ~df.is_none => pc # "raised"

\* C2: rules run in list order, and the entry at a key is exactly what the
\* latest rule that assigned the key wrote there: it refers to that rule's own
\* style (or to the dict that rule built), nothing of an earlier rule's style
\* remains, and overlapping writes alone produce no warning.
C2_LastWriteWins ==
    (pc \in {"loop", "done"} /\ ~NoRules) =>
        /\ Len(trace) = i - 1
        /\ \A j \in 1..Len(trace) :
              /\ \A k \in DOMAIN trace[j].rows : trace[j].rows[k] = AliasOf(j)
              /\ \A k \in DOMAIN trace[j].cells : trace[j].cells[k].alias \in {0, j}
        /\ \A k \in DOMAIN rows :
              /\ RowWriters(k) # {}
              /\ rows[k] = trace[SetMax(RowWriters(k))].rows[k]
              /\ StyleOf(rows[k]) = rules.list[SetMax(RowWriters(k))].style
        /\ \A k \in DOMAIN cells :
              /\ CellWriters(k) # {}
              /\ cells[k] = trace[SetMax(CellWriters(k))].cells[k]
              /\ cells[k].alias > 0 =>
                    StyleOf(cells[k]) = rules.list[SetMax(CellWriters(k))].style
        /\ (\A j \in 1..Len(trace) : rules.list[j].condition.type \in {"contains", "equals"})
              => warnings = <<>>

\* a bold rule and then a rule without a bold key have both written one cell
C2_Overwritten ==
    /\ pc = "done"
    /\ Len(rules.list) = 2
    /\ rules.list[1].style.has_bold
    /\ ~rules.list[2].style.has_bold
    /\ \E k \in DOMAIN cells : CellWriters(k) = {1, 2} /\ ~StyleOf(cells[k]).has_bold

\* C3: over a dataset of N rows and C columns every key of rows is in 0..N-1
\* and every key of cells is (r, c) with 1 <= r <= N and 0 <= c < C, where what
\* a rule writes for data row i of its target column c is at (i + 1, c).
C3_KeyRanges ==
    ~df.is_none =>
        /\ \A k \in DOMAIN rows : k \in 0..(Len(df.data) - 1)
        /\ \A k \in DOMAIN cells :
              /\ k[1] \in 1..Len(df.data)
              /\ k[2] \in 0..(Len(df.columns) - 1)
        /\ \A j \in 1..Len(trace) :
              /\ \A k \in DOMAIN trace[j].cells :
                    /\ k[2] = ColumnIndex(rules.list[j].target_column) - 1
                    /\ IsScale(rules.list[j], {"categorical"}) =>
                          trace[j].cells[k] =
                              OwnDict(BgOnly(rules.list[j].condition.color_map[
                                  StrOf(df.data[k[1]][k[2] + 1])]))
              /\ \A k \in DOMAIN trace[j].rows :
                    rules.list[j].condition.type = "contains" =>
                        Contains(Lower(StrOf(GetVal(rules.list[j].condition.value, PyStr(<<>>)))),
                                 Lower(StrOf(df.data[k + 1][
                                     ColumnIndex(rules.list[j].target_column)])))

\* the first data row has a rows entry and the last one a categorical cell
C3_FirstAndLastRow ==
    /\ ~df.is_none
    /\ pc = "done"
    /\ Len(df.data) >= 3
    /\ 0 \in DOMAIN rows
    /\ \E j \in 1..Len(trace) :
          /\ IsScale(rules.list[j], {"categorical"})
          /\ <<Len(df.data), 0>> \in DOMAIN trace[j].cells

\* C4 (as stated): against a dataset with columns and zero rows every rule list
\* returns exactly {rows: {}, cells: {}, warnings: []}.
C4_EmptyFrameEmptyMap ==
    (ZeroRows /\ pc = "done") =>
        returned[Len(returned)] = StyleMap(EmptyMap, EmptyMap, <<>>)

\* the rules that warn whatever the rows are, or because there are none
WarnsWithoutRows(r) ==
    /\ Applies(r)
    /\ \/ UnresolvableDate(r)
       \/ MissingCompare(r) /\ ScopeOf(r) = "cell"
       \/ NoColorMap(r)
       \/ IsScale(r, {"numeric", "date"})

\* C4 (amended): against a dataset with columns and zero rows no error escapes,
\* rows and cells stay empty, and warnings holds exactly one warning for each
\* rule, in list order, that has an existing target column and is a
\* date_compare with an unresolvable target, a cell-scope date_compare_column
\* with a missing compare column, a categorical scale without color_map or a
\* numeric or date colour scale; no other rule warns.
C4_EmptyFrameRuleWarnings ==
    ZeroRows =>
        /\ pc # "raised"
        /\ rows = EmptyMap
        /\ cells = EmptyMap
        /\ \A n \in 1..Len(returned) : returned[n].rows = EmptyMap /\ returned[n].cells = EmptyMap
        /\ Processed =>
              IF WarnsWithoutRows(last)
              THEN /\ Len(warnings) = Len(before.warnings) + 1
                   /\ SubSeq(warnings, 1, Len(before.warnings)) = before.warnings
              ELSE warnings = before.warnings

\* a zero-row call has returned one warning from two rules
C4_EmptyFrameWarned ==
    /\ ZeroRows
    /\ pc = "done"
    /\ Len(rules.list) = 2
    /\ Applies(rules.list[1]) /\ ~WarnsWithoutRows(rules.list[1])
    /\ rules.list[1].condition.type = "date_compare"
    /\ WarnsWithoutRows(rules.list[2])
    /\ Len(returned[Len(returned)].warnings) = 1

\* C5: with rules empty or None every call returns
\* {rows: {}, cells: {}, warnings: []} whatever the dataset is, a missing one
\* included: the loop is never entered, nothing is raised or assigned.
C5_NoRulesEmptyMap ==
    NoRules =>
        /\ pc \in {"idle", "done"}
        /\ trace = <<>>
        /\ \A n \in 1..Len(returned) : returned[n] = StyleMap(EmptyMap, EmptyMap, <<>>)

\* rules=None and no DataFrame at all: two calls have returned
C5_ReturnedWithoutFrame ==
    /\ rules.is_none
    /\ df.is_none
    /\ pc = "done"
    /\ Len(returned) = 2

\* C6: a rule whose target_column is absent, or is not a column of the
\* dataset, leaves rows, cells and warnings as they were, and raises nothing,
\* so that the loop goes on to the next rule.
C6_MissingTargetNoOp ==
    /\ (Processed /\ MissingTarget(last)) => (Untouched /\ warnings = before.warnings)
    /\ (pc = "raised") => ~MissingTarget(rules.list[i])

\* after entries and a warning of an earlier rule, a rule without its column
\* has been passed over and the call has returned
C6_SkippedThenReturned ==
    /\ pc = "done"
    /\ Len(rules.list) = 2
    /\ ~df.is_none
    /\ MissingTarget(last)
    /\ last.target_column # NoKey
    /\ before.cells # EmptyMap
    /\ before.warnings # <<>>
    /\ returned[Len(returned)] = before

\* C7 (as stated): a date_compare_column rule of any scope whose target column
\* exists and whose compare_column is missing writes nothing and appends a
\* warning.
C7_AnyScopeWarns ==
    (Processed /\ MissingCompare(last)) => WarnedOnly

\* C7 (amended): such a rule writes nothing in either scope; with scope 'cell'
\* (or no scope key) it appends exactly the warning "Compare column ... not found",
\* with any other scope it appends no warning.
C7_CellScopeWarns ==
    (Processed /\ MissingCompare(last)) =>
        /\ Untouched
        /\ IF ScopeOf(last) = "cell"
           THEN warnings = Append(before.warnings,
                                  W1("Compare column '{compare_column}' not found",
                                     IF last.condition.compare_column = NoKey
                                     THEN <<"None">>
                                     ELSE <<last.condition.compare_column>>))
           ELSE warnings = before.warnings

\* a row-scope and then a cell-scope rule with the missing compare column:
\* one warning in all
C7_RowSilentCellWarned ==
    /\ pc = "done"
    /\ Len(rules.list) = 2
    /\ MissingCompare(rules.list[1]) /\ ScopeOf(rules.list[1]) = "row"
    /\ MissingCompare(rules.list[2]) /\ ScopeOf(rules.list[2]) = "cell"
    /\ Len(df.data) > 0
    /\ Len(warnings) = 1

\* C8: a rule on an existing column with an unresolvable date_compare target,
\* an empty or missing color_map, a colors list not of length 3, manual stops
\* that are missing or not strictly increasing, or a colour-scale column in
\* which nothing parses appends at least one warning after the earlier ones,
\* leaves rows and cells as they were, and raises nothing.
C8_DefectWarnsOnly ==
    /\ (Processed /\ Applies(last) /\ Defective(last)) => WarnedOnly
    /\ (pc = "raised" /\ Applies(rules.list[i])) => ~Defective(rules.list[i])

\* the stops min=10, mid=10, max=20 after a rule that has written cells
C8_EqualStopsWarned ==
    /\ Processed
    /\ Applies(last)
    /\ BadManual(last)
    /\ last.condition.min = PyInt(10)
    /\ last.condition.mid = PyInt(10)
    /\ ~NothingParses(last)
    /\ before.cells # EmptyMap
    /\ Len(warnings) = Len(before.warnings) + 1

\* C9 (as stated): two evaluations of the same dataset and rule list, under the
\* same clock and context dates, return identical StyleMaps, warnings' text
\* included.
C9_SameStyleMap == Len(returned) = 2 => returned[1] = returned[2]

\* C10: no step of evaluate_formatting_rules changes the dataset or a rule.
C10_InputsUnchanged == [][df' = df /\ rules' = rules]_vars

\* a call that has written rows and cells has returned
C10_ReturnedAfterWrites ==
    /\ pc = "done"
    /\ rows # EmptyMap
    /\ cells # EmptyMap
    /\ \E j \in 1..Len(rules.list) : rules.list[j].scope = NoKey

\* the dict an entry of a returned StyleMap refers to shows the caller's change
Shows(entry) == StyleOf(entry).bg_color = Changed

\* C11 (as stated): a change the caller makes to one StyleDelta of a returned
\* StyleMap shows in no rule's style, in no other entry of that StyleMap and in
\* no entry of a StyleMap returned by another call.
C11_NoSharedState ==
    touched.n > 0 =>
        /\ \A j \in 1..Len(rules.list) : rules.list[j].style.bg_color # Changed
        /\ \A n \in 1..Len(returned) :
              /\ \A r \in DOMAIN returned[n].rows :
                    <<n, "rows", <<r>>>> # <<touched.n, touched.kind, touched.key>>
                        => ~Shows(returned[n].rows[r])
              /\ \A k \in DOMAIN returned[n].cells :
                    <<n, "cells", k>> # <<touched.n, touched.kind, touched.key>>
                        => ~Shows(returned[n].cells[k])

\* the warnings that report an unresolved comparison date
ResolutionMessages == {
    "compare_to='{compare_to}' not found in context",
    "compare_to='{compare_to}' not found",
    "compare_to='{compare_to}' not parseable",
    "Fixed date '{compare_value}' not parseable",
    "date_compare missing 'compare_to' or 'value'"}
IsDateCompare(r) ==
    /\ Applies(r)
    /\ ScopeOf(r) \in {"row", "cell"}
    /\ r.condition.type = "date_compare"
SkippedUnresolved ==
    /\ Untouched
    /\ Len(warnings) = Len(before.warnings) + 1
    /\ SubSeq(warnings, 1, Len(before.warnings)) = before.warnings
    /\ warnings[Len(warnings)].msg \in ResolutionMessages

\* the comparison date resolves, context dates taken from the caller's context
ResolvesInContext(r) ==
    IF r.condition.compare_to = "today" THEN TRUE
    ELSE IF r.condition.compare_to \in {"start_date", "end_date"}
    THEN to_datetime(env.context[r.condition.compare_to]).ok
    ELSE /\ Truthy(GetNone(r.condition.value))
         /\ to_datetime(GetNone(r.condition.value)).ok

\* C12 (as stated): a date_compare rule takes today, else the context date its
\* compare_to names, else its literal value, and is skipped with a warning
\* exactly when that does not resolve to a date.
C12_ContextDateResolves ==
    (Processed /\ IsDateCompare(last)) => (SkippedUnresolved <=> ~ResolvesInContext(last))

\* the calendar day at UTC+8 of the instant of the call: the UTC day until
\* 16:00 UTC, the next day from then on
SgDay == IF env.instant.hour >= 16 THEN env.instant.day + 1 ELSE env.instant.day

\* the comparison date of a date_compare rule that resolves, as an ordinal
ComparisonDay(r) ==
    IF r.condition.compare_to = "today" THEN SgDay
    ELSE IF r.condition.compare_to \in {"start_date", "end_date"}
    THEN to_datetime(env.globals[r.condition.compare_to]).day
    ELSE to_datetime(GetNone(r.condition.value)).day
CompareOp(r) == GetOr(r.condition.operator, ">")
Holds(op, a, b) ==
    CASE op = ">" -> a > b
      [] op = ">=" -> a >= b
      [] op = "<" -> a < b
      [] op = "<=" -> a <= b
      [] op = "==" -> a = b
      [] OTHER -> FALSE
Unparsable(name) == {q \in RowPositions : ~to_datetime(CellAt(q, name)).ok}
DateSatisfied(r) ==
    {q \in RowPositions \ Unparsable(r.target_column) :
        Holds(CompareOp(r), to_datetime(CellAt(q, r.target_column)).day, ComparisonDay(r))}

\* rows is before.rows with AliasOf(j) assigned at the keys of matched
RowsAre(matched, j) ==
    /\ DOMAIN rows = (DOMAIN before.rows) \cup matched
    /\ \A q \in DOMAIN rows :
          rows[q] = IF q \in matched THEN AliasOf(j) ELSE before.rows[q]
\* cells is before.cells with AliasOf(j) assigned at (q + 1, c) for q of matched
CellsAre(matched, c, j) ==
    /\ DOMAIN cells = (DOMAIN before.cells) \cup {<<q + 1, c>> : q \in matched}
    /\ \A k \in DOMAIN cells :
          cells[k] = IF k[2] = c /\ (k[1] - 1) \in matched THEN AliasOf(j)
                     ELSE before.cells[k]
\* warnings is before.warnings, plus one warning giving the count k if k > 0
CountWarned(k) ==
    IF k = 0 THEN warnings = before.warnings
    ELSE /\ Len(warnings) = Len(before.warnings) + 1
         /\ SubSeq(warnings, 1, Len(before.warnings)) = before.warnings
         /\ warnings[Len(warnings)].n = k

\* C13: a date_compare rule whose comparison date resolves assigns its style at
\* exactly the rows (row scope) or cells (cell scope) whose cell parses to a
\* date that satisfies the operator, leaves every other entry as it was, and
\* appends one warning with the count k of unparsable cells iff k > 0.
C13_DateCompareMatches ==
    (Processed /\ IsDateCompare(last) /\ ~UnresolvableDate(last)) =>
        /\ CountWarned(Cardinality(Unparsable(last.target_column)))
        /\ IF ScopeOf(last) = "row"
           THEN RowsAre(DateSatisfied(last), i - 1) /\ cells = before.cells
           ELSE /\ CellsAre(DateSatisfied(last), ColumnIndex(last.target_column) - 1, i - 1)
                /\ rows = before.rows

\* a row rule '>=' today has matched a row dated today and not an earlier one,
\* with one cell unparsable, after a rule that had written rows
C13_MatchedAndCounted ==
    /\ Processed
    /\ IsDateCompare(last)
    /\ ScopeOf(last) = "row"
    /\ CompareOp(last) = ">="
    /\ ~UnresolvableDate(last)
    /\ Cardinality(Unparsable(last.target_column)) = 1
    /\ \E q \in DateSatisfied(last) :
          to_datetime(CellAt(q, last.target_column)).day = ComparisonDay(last)
    /\ DateSatisfied(last) \cup Unparsable(last.target_column) # RowPositions
    /\ before.rows # EmptyMap

\* the rows a categorical rule maps, and the distinct values it does not
MappedRows(r) ==
    {q \in RowPositions : StrOf(CellAt(q, r.target_column)) \in DOMAIN r.condition.color_map}
UnmappedValues(r) ==
    {StrOf(CellAt(q, r.target_column)) : q \in RowPositions \ MappedRows(r)}
IsExamples(items, values) ==
    /\ Len(items) = IF Cardinality(values) < 3 THEN Cardinality(values) ELSE 3
    /\ \A a \in 1..Len(items) : items[a] \in values
    /\ \A a, b \in 1..Len(items) : a # b => items[a] # items[b]
UnmappedWarned(values) ==
    IF values = {} THEN warnings = before.warnings
    ELSE /\ Len(warnings) = Len(before.warnings) + 1
         /\ SubSeq(warnings, 1, Len(before.warnings)) = before.warnings
         /\ warnings[Len(warnings)].n = Cardinality(values)
         /\ IsExamples(warnings[Len(warnings)].items, values)
         /\ warnings[Len(warnings)].suffix = IF Cardinality(values) > 3 THEN "..." ELSE ""

\* C14: a cell-scope categorical colour scale with a non-empty color_map
\* assigns {bg_color: color_map[v]} at (i + 1, col) for exactly the rows i whose
\* str(value) v is a key of color_map, leaves every other entry as it was, and
\* appends one warning iff a value is unmapped: the count of distinct unmapped
\* values, at most 3 of them, and "..." only when they are more than 3.
C14_CategoricalScale ==
    (Processed /\ Applies(last) /\ IsScale(last, {"categorical"}) /\ ~NoColorMap(last)) =>
        /\ rows = before.rows
        /\ DOMAIN cells = (DOMAIN before.cells)
                          \cup {<<q + 1, ColumnIndex(last.target_column) - 1>> : q \in MappedRows(last)}
        /\ \A k \in DOMAIN cells :
              cells[k] = IF /\ k[2] = ColumnIndex(last.target_column) - 1
                            /\ (k[1] - 1) \in MappedRows(last)
                         THEN OwnDict(BgOnly(last.condition.color_map[
                                  StrOf(CellAt(k[1] - 1, last.target_column))]))
                         ELSE before.cells[k]
        /\ UnmappedWarned(UnmappedValues(last))

\* four values are unmapped, and an unmapped row keeps the entry of an earlier
\* rule while a mapped row has lost it
C14_EllipsisAndKept ==
    /\ Processed
    /\ Applies(last)
    /\ IsScale(last, {"categorical"})
    /\ Cardinality(UnmappedValues(last)) = 4
    /\ warnings[Len(warnings)].suffix = "..."
    /\ \E k \in DOMAIN before.cells :
          /\ k[2] = ColumnIndex(last.target_column) - 1
          /\ (k[1] - 1) \notin MappedRows(last)
          /\ cells[k] = before.cells[k]
    /\ \E k \in DOMAIN before.cells : cells[k] # before.cells[k]

\* ---------------------------------------------------------------------------
\* The rendered table
\* ---------------------------------------------------------------------------
\* a TableStyle command covers the table cell (col, row); -1 is the last column
Covers(cmd, col, row) ==
    /\ cmd.from[2] <= row /\ row <= cmd.to[2]
    /\ cmd.from[1] <= col /\ (cmd.to[1] = -1 \/ col <= cmd.to[1])
Covering(commands, col, row) ==
    {k \in 1..Len(commands) : Covers(commands[k], col, row)}
Latest(S) == CHOOSE k \in S : \A j \in S : j <= k

\* the background the table shows: the latest command covering the cell wins
DefaultBackground == Return(<<>>)
BackgroundAt(commands, col, row) ==
    IF Covering(commands, col, row) = {} THEN DefaultBackground
    ELSE commands[Latest(Covering(commands, col, row))].color

HasBg(map, key) == key \in DOMAIN map /\ StyleOf(map[key]).has_bg

\* cell entry's bg_color, else row entry's bg_color, else alternating/default
PriorityBackground(style_map, r, c) ==
    IF HasBg(style_map.cells, CellKey(r, c))
    THEN HexColor(StyleOf(style_map.cells[CellKey(r, c)]).bg_color)
    ELSE IF HasBg(style_map.rows, r)
    THEN HexColor(StyleOf(style_map.rows[r]).bg_color)
    ELSE IF (r + 1) % 2 = 0 THEN HexColor(row_alt) ELSE DefaultBackground

BadEntry(map) == \E key \in DOMAIN map : HasBg(map, key) /\ ~HexColor(StyleOf(map[key]).bg_color).ok

\* C15: the renderer looks up rows[i] and cells[(i + 1, c)] for the data row at
\* position i and column c, the keys the evaluator writes; the background of a
\* table cell is the cell entry's bg_color if present, else the row entry's
\* bg_color if present, else the alternating/default colour; the warnings are
\* printed and the table is rendered whatever they are (only a colour that
\* is not a hex colour stops it).
C15_RendererConsumesStyleMap ==
    story.n > 0 =>
        /\ story.printed = returned[story.n].warnings
        /\ story.raised # "" =>
              BadEntry(returned[story.n].rows) \/ BadEntry(returned[story.n].cells)
        /\ story.raised = "" =>
              \A r \in RowPositions : \A c \in 0..(Len(df.columns) - 1) :
                 /\ BackgroundAt(story.style_list, c, r + 1)
                       = PriorityBackground(returned[story.n], r, c)
                 /\ story.table_data[r + 2][c + 1].bold
                       = \/ (r \in DOMAIN returned[story.n].rows
                              /\ use_bold(StyleOf(returned[story.n].rows[r])))
                          \/ (CellKey(r, c) \in DOMAIN returned[story.n].cells
                              /\ use_bold(StyleOf(returned[story.n].cells[CellKey(r, c)])))

\* a table rendered with warnings printed, where on an alternating row one cell
\* shows its cell entry's colour and another the row entry's colour
C15_CellOverRowOverAlternate ==
    /\ story.n > 0
    /\ story.raised = ""
    /\ story.printed # <<>>
    /\ \E r \in RowPositions : \E c1, c2 \in 0..(Len(df.columns) - 1) :
          /\ (r + 1) % 2 = 0
          /\ HasBg(returned[story.n].rows, r)
          /\ HasBg(returned[story.n].cells, CellKey(r, c1))
          /\ CellKey(r, c2) \notin DOMAIN returned[story.n].cells
          /\ BackgroundAt(story.style_list, c1, r + 1)
                = HexColor(StyleOf(returned[story.n].cells[CellKey(r, c1)]).bg_color)
          /\ BackgroundAt(story.style_list, c2, r + 1)
                = HexColor(StyleOf(returned[story.n].rows[r]).bg_color)
          /\ BackgroundAt(story.style_list, c1, r + 1) # BackgroundAt(story.style_list, c2, r + 1)
          /\ BackgroundAt(story.style_list, c2, r + 1) # HexColor(row_alt)

\* C16 (as stated): a cell_formats entry keyed (r, c), r being the 0-based
\* position of the data row (header excluded) and c the column index, is the
\* format applied to the value in data row r, column c, before the
\* column_formats entry of that column.
C16_CellFormatKeyedByDataRow ==
    story.n > 0 =>
        \A key \in DOMAIN story.section_config.cell_formats :
            key[1] \in RowPositions =>
                story.table_data[key[1] + 2][key[2] + 1].format_spec
                    = story.section_config.cell_formats[key]

\* ---------------------------------------------------------------------------
\* Cell-scope comparisons
\* ---------------------------------------------------------------------------
IsCellNumeric(r) ==
    /\ Applies(r)
    /\ ScopeOf(r) = "cell"
    /\ r.condition.type = "numeric"
Threshold(r) == GetVal(r.condition.value, PyInt(0))
ParsesAsNumber(v) == ToFloat(v).ok /\ ~ToFloat(v).nan
\* the rows whose cell parses as a number that satisfies (value op threshold)
NumericSatisfied(r) ==
    {q \in RowPositions :
        /\ ParsesAsNumber(CellAt(q, r.target_column))
        /\ IsNumber(Threshold(r))
        /\ Holds(GetOr(r.condition.operator, ">"),
                 2 * ToFloat(CellAt(q, r.target_column)).v, Halves(Threshold(r)))}

\* C17: a cell-scope numeric rule assigns its style at exactly the cells whose
\* value parses as a number and satisfies (value op threshold), op being one of
\* >, >=, <, <=, ==; every other cell is skipped and no warning is appended.
C17_CellNumericMatches ==
    (Processed /\ IsCellNumeric(last)) =>
        /\ CellsAre(NumericSatisfied(last), ColumnIndex(last.target_column) - 1, i - 1)
        /\ rows = before.rows
        /\ warnings = before.warnings

\* a numeric rule has styled some cells of a column that also holds a number
\* not satisfying it, a NaN and a text that is no number, after a rule that
\* had warned
C17_MatchedAndSkipped ==
    /\ Processed
    /\ IsCellNumeric(last)
    /\ NumericSatisfied(last) # {}
    /\ \E q \in RowPositions \ NumericSatisfied(last) :
          ParsesAsNumber(CellAt(q, last.target_column))
    /\ \E q \in RowPositions : ToFloat(CellAt(q, last.target_column)).nan
    /\ \E q \in RowPositions : ~ToFloat(CellAt(q, last.target_column)).ok
    /\ before.warnings # <<>>
    /\ warnings = before.warnings

IsDateCompareColumn(r) ==
    /\ Applies(r)
    /\ ScopeOf(r) = "cell"
    /\ r.condition.type = "date_compare_column"
    /\ r.condition.compare_column \notin {NoKey, ""}
    /\ ColumnIndex(r.condition.compare_column) > 0
\* a op b over two parsed dates, each a day and the time within it
DatesHold(op, a, b) ==
    IF a.day # b.day THEN Holds(op, a.day, b.day) ELSE Holds(op, a.ns, b.ns)
\* the rows with the target or the compare cell unparsable
EitherUnparsable(r) ==
    Unparsable(r.target_column) \cup Unparsable(r.condition.compare_column)
ColumnSatisfied(r) ==
    {q \in RowPositions \ EitherUnparsable(r) :
        DatesHold(CompareOp(r), to_datetime(CellAt(q, r.target_column)),
                  to_datetime(CellAt(q, r.condition.compare_column)))}

\* C18: a date_compare_column rule with both columns present assigns its style
\* at (row + 1, index of target_column) for exactly the rows whose target cell
\* and compare cell both parse as dates with (target op compare); a row with
\* either side unparsable gets nothing and counts as one failure, and one
\* warning with the count is appended iff the count is > 0.
C18_DateCompareColumnMatches ==
    (Processed /\ IsDateCompareColumn(last)) =>
        /\ CellsAre(ColumnSatisfied(last), ColumnIndex(last.target_column) - 1, i - 1)
        /\ rows = before.rows
        /\ CountWarned(Cardinality(EitherUnparsable(last)))

\* End '<' Start has styled the row with End before Start and not the row with
\* End after Start; one row has only its compare cell unparsable
C18_StyledOnlyEndBeforeStart ==
    /\ Processed
    /\ IsDateCompareColumn(last)
    /\ CompareOp(last) = "<"
    /\ 0 \in ColumnSatisfied(last)
    /\ <<1, ColumnIndex(last.target_column) - 1>> \in DOMAIN cells
    /\ 1 \notin ColumnSatisfied(last) \cup EitherUnparsable(last)
    /\ <<2, ColumnIndex(last.target_column) - 1>> \notin DOMAIN cells
    /\ \E q \in Unparsable(last.condition.compare_column) :
          q \notin Unparsable(last.target_column)
    /\ warnings[Len(warnings)].n = Cardinality(EitherUnparsable(last))

\* ---------------------------------------------------------------------------
\* The gradient
\* ---------------------------------------------------------------------------
IsHexColor(c) == RgbOk(hex_to_rgb(c))
\* channel a moved towards channel b by the factor num/den, truncated
ChannelBlend(a, b, num, den) == (a * den + (b - a) * num) \div den
\* the blend of two colours with the factor num/den, written '#rrggbb'
BlendOf(c1, c2, num, den) ==
    IF IsHexColor(c1) /\ IsHexColor(c2)
    THEN Return(<<"#">>
                \o Hex2(ChannelBlend(hex_to_rgb(c1)[1], hex_to_rgb(c2)[1], num, den))
                \o Hex2(ChannelBlend(hex_to_rgb(c1)[2], hex_to_rgb(c2)[2], num, den))
                \o Hex2(ChannelBlend(hex_to_rgb(c1)[3], hex_to_rgb(c2)[3], num, den)))
    ELSE Raise("ValueError")
\* a six-digit colour written with '#' and lower-case digits
LowerSpelling(c) == <<"#">> \o Lower(LStripHash(c))

\* what a call gives away from the middle stop, value and stops in halves
GradientPieces(value, lo, mid, hi, colors, result) ==
    /\ value <= lo => result = Return(colors[1])
    /\ value >= hi => result = Return(colors[3])
    /\ (lo < value /\ value <= mid) =>
          result = BlendOf(colors[1], colors[2], value - lo, mid - lo)
    /\ (mid < value /\ value < hi) =>
          result = BlendOf(colors[2], colors[3], value - mid, hi - mid)
PiecesOfCall ==
    GradientPieces(Halves(call.value), Halves(call.min_val), Halves(call.mid_val),
                   Halves(call.max_val), call.colors, call.result)
AtMid == call.done /\ Halves(call.value) = Halves(call.mid_val)

\* C19 (as stated): with min < mid < max the gradient is exactly c0 at
\* value = min, exactly c2 at value = max and exactly c1 at value = mid; value
\* <= min gives c0, value >= max gives c2, min < value <= mid the blend of c0
\* and c1 with factor (value - min) / (mid - min), mid < value < max the blend
\* of c1 and c2 with factor (value - mid) / (max - mid).
C19_GradientExactAtStops ==
    call.done =>
        /\ PiecesOfCall
        /\ (AtMid /\ IsHexColor(call.colors[1]) /\ IsHexColor(call.colors[2])) =>
              call.result = Return(call.colors[2])

\* C19 (amended): as stated, except that at value = mid the result is the
\* blend of c0 and c1 with factor 1: c1 written '#rrggbb' in lower case, which
\* is exactly c1 only if c1 is written so, and a ValueError if c0 or c1 is not
\* a hex colour.
C19_GradientLowerCaseAtMid ==
    call.done =>
        /\ PiecesOfCall
        /\ AtMid =>
              call.result = IF IsHexColor(call.colors[1]) /\ IsHexColor(call.colors[2])
                            THEN Return(LowerSpelling(call.colors[2]))
                            ELSE Raise("ValueError")
        /\ (AtMid /\ call.result.ok) =>
              (call.result.color = call.colors[2]
                  <=> call.colors[2] = LowerSpelling(call.colors[2]))

\* value = mid with c1 = '#FFFF00' has given '#ffff00'
C19_MidInLowerCase ==
    /\ AtMid
    /\ call.result.ok
    /\ call.result.color # call.colors[2]
    /\ call.result.color = LowerSpelling(call.colors[2])

\* ---------------------------------------------------------------------------
\* The numeric colour scale in auto mode
\* ---------------------------------------------------------------------------
\* an auto numeric scale with three colours over a column holding a number
IsAutoNumeric(r) ==
    /\ Applies(r)
    /\ IsScale(r, {"numeric"})
    /\ ~IsManual(r)
    /\ ~WrongColors(r)
    /\ ~NothingParses(r)
ColorsOf(r) == IF r.condition.has_colors THEN r.condition.colors ELSE DefaultColors
Parseable(r) == {q \in RowPositions : ParsesAsNumber(CellAt(q, r.target_column))}
ValueAt(r, q) == ToFloat(CellAt(q, r.target_column)).v
Smallest(r) ==
    CHOOSE m \in {ValueAt(r, q) : q \in Parseable(r)} :
        \A q \in Parseable(r) : m <= ValueAt(r, q)
Largest(r) ==
    CHOOSE m \in {ValueAt(r, q) : q \in Parseable(r)} :
        \A q \in Parseable(r) : m >= ValueAt(r, q)

\* the gradient of a value between stops lo <= mid <= hi, all in halves
GradientOf(value, lo, mid, hi, colors) ==
    IF value <= lo THEN Return(colors[1])
    ELSE IF value >= hi THEN Return(colors[3])
    ELSE IF value <= mid THEN BlendOf(colors[1], colors[2], value - lo, mid - lo)
    ELSE BlendOf(colors[2], colors[3], value - mid, hi - mid)
\* with min and max the smallest and largest parseable value, mid their mean
AutoColor(r, q) ==
    GradientOf(2 * ValueAt(r, q), 2 * Smallest(r), Smallest(r) + Largest(r),
               2 * Largest(r), ColorsOf(r))
\* the row holds the value half-way between two different extremes
HoldsMid(r, q) ==
    /\ q \in Parseable(r)
    /\ Smallest(r) < Largest(r)
    /\ 2 * ValueAt(r, q) = Smallest(r) + Largest(r)

\* cells is before.cells with {bg_color: AutoColor} at every parseable cell and
\* nothing else, rows and warnings as they were
AutoScaleWritten(r, c) ==
    /\ rows = before.rows
    /\ warnings = before.warnings
    /\ DOMAIN cells = (DOMAIN before.cells) \cup {<<q + 1, c>> : q \in Parseable(r)}
    /\ \A q \in Parseable(r) : AutoColor(r, q).ok
    /\ \A k \in DOMAIN cells :
          cells[k] = IF k[2] = c /\ (k[1] - 1) \in Parseable(r)
                     THEN OwnDict(BgOnly(AutoColor(r, k[1] - 1).color))
                     ELSE before.cells[k]

\* C20 (as stated): a numeric color_scale rule in auto mode takes min and max
\* as the smallest and largest parseable value and mid = (min + max) / 2,
\* ignores unparsable and NaN cells (no entry, no warning) and writes
\* {bg_color: gradient(value, min, mid, max, colors)} for every parseable cell;
\* the cell holding the value half-way gets exactly c1.
C20_AutoScaleExactMid ==
    (Processed /\ IsAutoNumeric(last)) =>
        /\ AutoScaleWritten(last, ColumnIndex(last.target_column) - 1)
        /\ \A q \in RowPositions :
              HoldsMid(last, q) =>
                 cells[<<q + 1, ColumnIndex(last.target_column) - 1>>].own.bg_color
                    = ColorsOf(last)[2]

\* C20 (amended): as stated for min, max, mid, the cells ignored and the cells
\* written, the cell holding the smallest value getting c0 and the one holding
\* the largest c2; the cell holding the value half-way gets c1 written
\* '#rrggbb' in lower case, the blend of c0 and c1 with factor 1. When a blend
\* is needed of a colour that is not a hex colour, the call raises ValueError
\* instead of returning.
C20_AutoScaleLowerCaseMid ==
    /\ (Processed /\ IsAutoNumeric(last)) =>
          /\ AutoScaleWritten(last, ColumnIndex(last.target_column) - 1)
          /\ \A q \in RowPositions :
                HoldsMid(last, q) =>
                   cells[<<q + 1, ColumnIndex(last.target_column) - 1>>].own.bg_color
                      = LowerSpelling(ColorsOf(last)[2])
    /\ (pc = "raised" /\ i <= Len(rules.list) /\ IsAutoNumeric(rules.list[i])) =>
          /\ exc = "ValueError"
          /\ \E q \in Parseable(rules.list[i]) : ~AutoColor(rules.list[i], q).ok

\* over 10, 50, 90, a NaN and a text, with colours in upper case: the cell
\* holding 10 has c0, the one holding 90 has c2, the one holding 50 has c1 in
\* lower case, and the NaN and the text have no entry
C20_TenFiftyNinety ==
    /\ Processed
    /\ IsAutoNumeric(last)
    /\ \E q \in Parseable(last) :
          /\ ValueAt(last, q) = Smallest(last)
          /\ cells[<<q + 1, ColumnIndex(last.target_column) - 1>>].own.bg_color
                = ColorsOf(last)[1]
    /\ \E q \in Parseable(last) :
          /\ ValueAt(last, q) = Largest(last)
          /\ cells[<<q + 1, ColumnIndex(last.target_column) - 1>>].own.bg_color
                = ColorsOf(last)[3]
    /\ \E q \in RowPositions :
          /\ HoldsMid(last, q)
          /\ cells[<<q + 1, ColumnIndex(last.target_column) - 1>>].own.bg_color
                # ColorsOf(last)[2]
    /\ \E q \in RowPositions :
          /\ ToFloat(CellAt(q, last.target_column)).nan
          /\ <<q + 1, ColumnIndex(last.target_column) - 1>> \notin DOMAIN cells
    /\ \E q \in RowPositions :
          /\ ~ToFloat(CellAt(q, last.target_column)).ok
          /\ <<q + 1, ColumnIndex(last.target_column) - 1>> \notin DOMAIN cells

\* ---------------------------------------------------------------------------
\* The gradient on degenerate ranges
\* ---------------------------------------------------------------------------
AllHex(colors) == \A k \in 1..Len(colors) : IsHexColor(colors[k])

\* C21: for every number value and every min <= mid <= max, min == mid,
\* mid == max and min == mid == max included, get_gradient_color divides by no
\* zero and returns a colour (the colours being hex colours).
C21_GradientTotal ==
    call.done =>
        /\ call.result.exc # "ZeroDivisionError"
        /\ AllHex(call.colors) => call.result.ok
        /\ (Halves(call.min_val) = Halves(call.max_val)) =>
              call.result \in {Return(call.colors[1]), Return(call.colors[3])}

\* min == mid < max with min < value < max has given a blend of c1 and c2
C21_BlendPastEqualStops ==
    /\ call.done
    /\ Halves(call.min_val) = Halves(call.mid_val)
    /\ Halves(call.mid_val) < Halves(call.max_val)
    /\ Halves(call.min_val) < Halves(call.value)
    /\ Halves(call.value) < Halves(call.max_val)
    /\ call.result = BlendOf(call.colors[2], call.colors[3],
                             Halves(call.value) - Halves(call.mid_val),
                             Halves(call.max_val) - Halves(call.mid_val))
    /\ call.result.ok

\* channel a moved towards channel b by the factor num/den, rounded to nearest
RoundedChannel(a, b, num, den) == (2 * (a * den + (b - a) * num) + den) \div (2 * den)
RoundedBlend(c1, c2, num, den) ==
    <<"#">>
    \o Hex2(RoundedChannel(hex_to_rgb(c1)[1], hex_to_rgb(c2)[1], num, den))
    \o Hex2(RoundedChannel(hex_to_rgb(c1)[2], hex_to_rgb(c2)[2], num, den))
    \o Hex2(RoundedChannel(hex_to_rgb(c1)[3], hex_to_rgb(c2)[3], num, den))
\* the call blends its lower or its upper pair of colours
BlendsLower ==
    /\ call.done /\ AllHex(call.colors)
    /\ Halves(call.min_val) < Halves(call.value)
    /\ Halves(call.value) <= Halves(call.mid_val)
    /\ Halves(call.value) < Halves(call.max_val)
BlendsUpper ==
    /\ call.done /\ AllHex(call.colors)
    /\ Halves(call.mid_val) < Halves(call.value)
    /\ Halves(call.min_val) < Halves(call.value)
    /\ Halves(call.value) < Halves(call.max_val)

\* C22 (as stated): when two stop colours are blended with a factor in [0, 1],
\* each channel of the result is round(r1 + (r2 - r1) * factor), the exact
\* blend rounded to the nearest integer (0 and 255 at factor 0.5 give 128).
C22_BlendRoundsToNearest ==
    /\ BlendsLower =>
          call.result = Return(RoundedBlend(call.colors[1], call.colors[2],
                                            Halves(call.value) - Halves(call.min_val),
                                            Halves(call.mid_val) - Halves(call.min_val)))
    /\ BlendsUpper =>
          call.result = Return(RoundedBlend(call.colors[2], call.colors[3],
                                            Halves(call.value) - Halves(call.mid_val),
                                            Halves(call.max_val) - Halves(call.mid_val)))

\* ---------------------------------------------------------------------------
\* The date colour scale
\* ---------------------------------------------------------------------------
StopDay(v) == to_datetime(GetNone(v)).day
DateStopsValid(c) ==
    /\ to_datetime(GetNone(c.min)).ok
    /\ to_datetime(GetNone(c.mid)).ok
    /\ to_datetime(GetNone(c.max)).ok
    /\ StopDay(c.min) < StopDay(c.mid)
    /\ StopDay(c.mid) < StopDay(c.max)
\* a date scale with three colours, a date in its column and, in manual mode,
\* stops that are dates in increasing order
IsDateScale(r) ==
    /\ Applies(r)
    /\ IsScale(r, {"date"})
    /\ ~WrongColors(r)
    /\ ~NothingParses(r)
    /\ IsManual(r) => DateStopsValid(r.condition)
Dated(r) == RowPositions \ Unparsable(r.target_column)
DayAt(r, q) == to_datetime(CellAt(q, r.target_column)).day
EarliestDay(r) ==
    CHOOSE m \in {DayAt(r, q) : q \in Dated(r)} : \A q \in Dated(r) : m <= DayAt(r, q)
LatestDay(r) ==
    CHOOSE m \in {DayAt(r, q) : q \in Dated(r)} : \A q \in Dated(r) : m >= DayAt(r, q)
\* the gradient of the ordinal of the row's date, the stops in halves of a day
DateColor(r, q) ==
    IF IsManual(r)
    THEN GradientOf(2 * DayAt(r, q), 2 * StopDay(r.condition.min),
                    2 * StopDay(r.condition.mid), 2 * StopDay(r.condition.max), ColorsOf(r))
    ELSE GradientOf(2 * DayAt(r, q), 2 * EarliestDay(r), EarliestDay(r) + LatestDay(r),
                    2 * LatestDay(r), ColorsOf(r))
ColorAt(q, c) == cells[<<q + 1, c>>].own.bg_color

\* one {bg_color} entry at every cell that parses, none elsewhere, rows as they
\* were, and one warning with the count k of unparsable cells iff k > 0
DateScaleWritten(r, c) ==
    /\ rows = before.rows
    /\ CountWarned(Cardinality(Unparsable(r.target_column)))
    /\ DOMAIN cells = (DOMAIN before.cells) \cup {<<q + 1, c>> : q \in Dated(r)}
    /\ \A q \in Dated(r) : DateColor(r, q).ok
    /\ \A k \in DOMAIN cells :
          cells[k] = IF k[2] = c /\ (k[1] - 1) \in Dated(r)
                     THEN OwnDict(BgOnly(DateColor(r, k[1] - 1).color))
                     ELSE before.cells[k]

\* C23 (as stated): a date color_scale rule behaves like the numeric one on
\* the ordinal day numbers of the parsed dates: in auto mode the earliest date
\* gets c0 and the latest gets c2 with mid = (min + max) / 2; every parseable
\* cell gets one {bg_color} entry, unparsable cells none, and k > 0 unparsable
\* cells give one warning in total, the count k.
C23_DateScaleEnds ==
    (Processed /\ IsDateScale(last)) =>
        /\ DateScaleWritten(last, ColumnIndex(last.target_column) - 1)
        /\ ~IsManual(last) =>
              \A q \in Dated(last) :
                 /\ DayAt(last, q) = EarliestDay(last) =>
                       ColorAt(q, ColumnIndex(last.target_column) - 1) = ColorsOf(last)[1]
                 /\ DayAt(last, q) = LatestDay(last) =>
                       ColorAt(q, ColumnIndex(last.target_column) - 1) = ColorsOf(last)[3]

\* C23 (amended): as stated, for a rule with three colours and, in manual
\* mode, valid stops, except that the latest date gets c2 only when it is
\* later than the earliest: when every parseable date is the same day, each
\* gets c0.
C23_DateScaleEndsApart ==
    (Processed /\ IsDateScale(last)) =>
        /\ DateScaleWritten(last, ColumnIndex(last.target_column) - 1)
        /\ ~IsManual(last) =>
              \A q \in Dated(last) :
                 /\ DayAt(last, q) = EarliestDay(last) =>
                       ColorAt(q, ColumnIndex(last.target_column) - 1) = ColorsOf(last)[1]
                 /\ (DayAt(last, q) = LatestDay(last) /\ EarliestDay(last) < LatestDay(last)) =>
                       ColorAt(q, ColumnIndex(last.target_column) - 1) = ColorsOf(last)[3]

\* an auto date scale over two different dates and a text: c0 at the earlier,
\* c2 at the later, no entry at the text, one warning with the count 1
C23_TwoDatesAndText ==
    /\ Processed
    /\ IsDateScale(last)
    /\ ~IsManual(last)
    /\ EarliestDay(last) < LatestDay(last)
    /\ Cardinality(Unparsable(last.target_column)) = 1
    /\ \E q \in Dated(last) :
          /\ DayAt(last, q) = EarliestDay(last)
          /\ ColorAt(q, ColumnIndex(last.target_column) - 1) = ColorsOf(last)[1]
    /\ \E q \in Dated(last) :
          /\ DayAt(last, q) = LatestDay(last)
          /\ ColorAt(q, ColumnIndex(last.target_column) - 1) = ColorsOf(last)[3]
    /\ \A q \in Unparsable(last.target_column) :
          <<q + 1, ColumnIndex(last.target_column) - 1>> \notin DOMAIN cells
    /\ Len(warnings) = Len(before.warnings) + 1
    /\ warnings[Len(warnings)].n = 1

\* ---------------------------------------------------------------------------
\* Rules are independent of each other
\* ---------------------------------------------------------------------------
\* an entry that refers to the style dict of rule j of the rest refers to rule
\* k + j of the whole list
Shifted(map, k) ==
    [key \in DOMAIN map |->
        IF map[key].alias > 0 THEN AliasOf(map[key].alias + k) ELSE map[key]]
\* at every key the entry of the later map if it has one, else the earlier's
LaterWins(m1, m2) ==
    [key \in (DOMAIN m1) \cup (DOMAIN m2) |->
        IF key \in DOMAIN m2 THEN m2[key] ELSE m1[key]]
Merged(a, b, k) ==
    StyleMap(LaterWins(a.rows, Shifted(b.rows, k)),
             LaterWins(a.cells, Shifted(b.cells, k)),
             a.warnings \o b.warnings)
\* the two processes iterate the sets both have built in the same order
SameOrder(h1, h2) ==
    \A s \in (DOMAIN h1) \cap (DOMAIN h2) : h1[s] = h2[s]
\* the whole list and both parts have been evaluated, in one process
AllEvaluated ==
    /\ Len(parts.results) = 2
    /\ pc \in {"done", "raised"}
    /\ SameOrder(parts.results[1].hashOrder, parts.results[2].hashOrder)
    /\ SameOrder(parts.results[1].hashOrder, hashOrder)
    /\ SameOrder(parts.results[2].hashOrder, hashOrder)

\* C24: rules are independent of each other: evaluating R1 ++ R2 gives the
\* StyleMap that merging the separate evaluations of R1 and of R2 gives, the
\* later rule winning at every rows and cells key and the warnings of R1
\* followed by those of R2; the whole raises exactly when a part raises, with
\* the exception of the first part that raises.
C24_RulesIndependent ==
    AllEvaluated =>
        /\ parts.results[1].exc =
              (IF parts.results[2].exc # "" THEN parts.results[2].exc ELSE Outcome.exc)
        /\ parts.results[1].exc = "" =>
              parts.results[1].map = Merged(parts.results[2].map, Outcome.map, parts.at)

\* a list of two rules cut between them: both wrote the same key with
\* different entries and both warned; the whole holds the later entry
C24_LaterRuleWon ==
    /\ AllEvaluated
    /\ parts.at = 1
    /\ Len(parts.whole) = 2
    /\ Outcome.exc = ""
    /\ parts.results[1].exc = ""
    /\ parts.results[2].map.warnings # <<>>
    /\ Outcome.map.warnings # <<>>
    /\ \E key \in (DOMAIN parts.results[2].map.cells) \cap (DOMAIN Outcome.map.cells) :
          /\ parts.results[2].map.cells[key] # Shifted(Outcome.map.cells, 1)[key]
          /\ parts.results[1].map.cells[key] = Shifted(Outcome.map.cells, 1)[key]

\* ---------------------------------------------------------------------------
\* equals in the two scopes
\* ---------------------------------------------------------------------------
IsEquals(r, sc) == Applies(r) /\ ScopeOf(r) = sc /\ r.condition.type = "equals"
CellText(q, name) == StrOf(CellAt(q, name))
\* the rows whose stripped text, or whose text as it is, equals v
StrippedEqual(name, v) == {q \in RowPositions : Strip(CellText(q, name)) = v}
UntrimmedEqual(name, v) == {q \in RowPositions : CellText(q, name) = v}
\* the texts a comparison in column name can be about
Texts(r) ==
    {CellText(q, r.target_column) : q \in RowPositions}
    \cup {Strip(CellText(q, r.target_column)) : q \in RowPositions}
    \cup {StrOf(r.condition.value), <<>>, <<"N","o","n","e">>}
RowsOf(j) == DOMAIN trace[j].rows
CellRowsOf(j) == {k[1] - 1 : k \in DOMAIN trace[j].cells}
\* rules 1 and 2 are equals rules with the same column and condition, the
\* first of row scope and the second of cell scope, and both are processed
EqualsInBothScopes ==
    /\ pc \in {"loop", "done"}
    /\ i = 3
    /\ IsEquals(rules.list[1], "row")
    /\ IsEquals(rules.list[2], "cell")
    /\ rules.list[1].target_column = rules.list[2].target_column
    /\ rules.list[1].condition = rules.list[2].condition

\* C25 (as stated): equals compares the stringified cell with the stringified
\* rule value, and the two scopes differ only in trimming: for one and the
\* same text of the rule value, row scope matches the rows whose stripped cell
\* text equals it and cell scope the rows whose untrimmed cell text equals it.
C25_ScopesDifferOnlyInTrimming ==
    EqualsInBothScopes =>
        \E v \in Texts(rules.list[1]) :
           /\ RowsOf(1) = StrippedEqual(rules.list[1].target_column, v)
           /\ CellRowsOf(2) = UntrimmedEqual(rules.list[1].target_column, v)

\* C25 (amended): a row-scope equals rule matches the rows whose stripped cell
\* text equals str(value), value being '' when the rule has none; a cell-scope
\* equals rule matches the rows whose untrimmed cell text equals str(value),
\* value being None (text 'None') when the rule has none; the rule value is
\* never trimmed.
C25_EqualsPerScope ==
    /\ (Processed /\ IsEquals(last, "row")) =>
          /\ DOMAIN trace[i - 1].rows =
                StrippedEqual(last.target_column, StrOf(GetVal(last.condition.value, PyStr(<<>>))))
          /\ trace[i - 1].cells = <<>>
    /\ (Processed /\ IsEquals(last, "cell")) =>
          /\ CellRowsOf(i - 1) =
                UntrimmedEqual(last.target_column, StrOf(GetNone(last.condition.value)))
          /\ trace[i - 1].rows = <<>>

\* value 'North' on a column holding ' North ': matched in row scope, not
\* matched in cell scope
C25_NorthInRowScopeOnly ==
    /\ EqualsInBothScopes
    /\ rules.list[1].condition.value = PyStr(<<"N","o","r","t","h">>)
    /\ \E q \in RowPositions :
          /\ CellText(q, rules.list[1].target_column) = <<" ","N","o","r","t","h"," ">>
          /\ q \in RowsOf(1)
          /\ q \notin CellRowsOf(2)

\* ---------------------------------------------------------------------------
\* contains
\* ---------------------------------------------------------------------------
IsContains(r) ==
    Applies(r) /\ ScopeOf(r) \in {"row", "cell"} /\ r.condition.type = "contains"
\* a occurs in b at some position
Occurs(a, b) ==
    \E k \in 0..Len(b) :
       /\ k + Len(a) <= Len(b)
       /\ \A j \in 1..Len(a) : b[k + j] = a[j]
\* the string form of the rule value, '' when the rule has none
ValueText(r) == IF r.condition.value = Missing THEN <<>> ELSE StrOf(r.condition.value)
ContainsRows(r) ==
    {q \in RowPositions : Occurs(Lower(ValueText(r)), Lower(CellText(q, r.target_column)))}
MatchedBy(j) ==
    IF ScopeOf(rules.list[j]) = "row" THEN RowsOf(j) ELSE CellRowsOf(j)

\* C26: in both scopes a contains rule matches a row iff the lower-cased string
\* form of the rule value is a substring of the lower-cased string form of the
\* target cell; a rule whose value is missing or the empty string matches
\* every row.
C26_ContainsIgnoresCase ==
    (Processed /\ IsContains(last)) =>
        /\ MatchedBy(i - 1) = ContainsRows(last)
        /\ ScopeOf(last) = "row" => trace[i - 1].cells = <<>>
        /\ ScopeOf(last) = "cell" =>
              /\ trace[i - 1].rows = <<>>
              /\ \A k \in DOMAIN trace[i - 1].cells : k[2] = ColumnIndex(last.target_column) - 1
        /\ ValueText(last) = <<>> => MatchedBy(i - 1) = RowPositions

\* value 'ACT' matched 'Active' and 'active' and not 'Unknown'; then a rule
\* without value matched every row
C26_ActThenEveryRow ==
    /\ pc \in {"loop", "done"}
    /\ i = 3
    /\ IsContains(rules.list[1])
    /\ IsContains(rules.list[2])
    /\ rules.list[1].condition.value = PyStr(<<"A","C","T">>)
    /\ rules.list[2].condition.value = Missing
    /\ \E q \in MatchedBy(1) : CellText(q, rules.list[1].target_column) = <<"A","c","t","i","v","e">>
    /\ \E q \in MatchedBy(1) : CellText(q, rules.list[1].target_column) = <<"a","c","t","i","v","e">>
    /\ \E q \in RowPositions \ MatchedBy(1) : CellText(q, rules.list[1].target_column) = <<"U","n","k","n","o","w","n">>
    /\ MatchedBy(2) = RowPositions
    /\ Len(df.data) = 4

\* ---------------------------------------------------------------------------
\* compare_to 'today'
\* ---------------------------------------------------------------------------
IsTodayRule(r) ==
    /\ Applies(r)
    /\ ScopeOf(r) \in {"row", "cell"}
    /\ r.condition.type = "date_compare"
    /\ r.condition.compare_to = "today"
\* the rows whose date satisfies the operator against the day at UTC+8
TodayRows(r) ==
    {q \in Dated(r) : Holds(CompareOp(r), DayAt(r, q), SgDay)}
\* the calendar day of the instant in the host's local zone
HostDay ==
    IF env.instant.hour + env.host_tz >= 24 THEN env.instant.day + 1
    ELSE IF env.instant.hour + env.host_tz < 0 THEN env.instant.day - 1
    ELSE env.instant.day

\* C27: with compare_to 'today' the comparison date is the calendar date of the
\* current instant at the fixed offset UTC+8, independent of the host's local
\* time zone: the rows matched are those the instant alone determines.
C27_TodayIsUtcPlus8 ==
    (Processed /\ IsTodayRule(last)) =>
        /\ MatchedBy(i - 1) = TodayRows(last)
        /\ Len(warnings) - Len(before.warnings) =
              (IF Unparsable(last.target_column) = {} THEN 0 ELSE 1)

\* at 18:00 UTC of 2025-01-04 on a host five hours west of UTC, where it is
\* still the 4th, '== today' has matched the row dated 2025-01-05
C27_NextDayInSingapore ==
    /\ Processed
    /\ IsTodayRule(last)
    /\ CompareOp(last) = "=="
    /\ HostDay = ToOrdinal(2025, 1, 4)
    /\ SgDay = ToOrdinal(2025, 1, 5)
    /\ \E q \in MatchedBy(i - 1) : DayAt(last, q) = ToOrdinal(2025, 1, 5)

\* ---------------------------------------------------------------------------
\* The entries of a colour scale
\* ---------------------------------------------------------------------------
IsColorScale(r) ==
    Applies(r) /\ ScopeOf(r) = "cell" /\ r.condition.type = "color_scale"
\* an entry that is a dict of its own holding the key bg_color and no other
OnlyBackground(entry) ==
    /\ entry.alias = 0
    /\ entry.own.has_bg
    /\ ~entry.own.has_bold
    /\ entry.own = BgOnly(entry.own.bg_color)
\* the latest rule begun, and what it has assigned
Current == Len(trace)

\* C28: every entry a color_scale rule writes is exactly {bg_color: colour},
\* the colour of a categorical rule being color_map[str(cell)]: the rule's own
\* style is not used, and the entry an earlier rule wrote at the key is
\* replaced as a whole.
C28_ScaleEntryIsBackgroundOnly ==
    (Current >= 1 /\ pc \in {"loop", "done", "raised"} /\ IsColorScale(rules.list[Current])) =>
        /\ trace[Current].rows = <<>>
        /\ \A k \in DOMAIN trace[Current].cells :
              /\ OnlyBackground(trace[Current].cells[k])
              /\ cells[k] = trace[Current].cells[k]
              /\ k[2] = ColumnIndex(rules.list[Current].target_column) - 1
              /\ rules.list[Current].condition.scale_type = "categorical" =>
                    cells[k].own.bg_color =
                       rules.list[Current].condition.color_map[
                          CellText(k[1] - 1, rules.list[Current].target_column)]

\* a cell an earlier rule had styled bold now holds the scale's colour alone,
\* a colour that is not the background of the scale rule's own style
C28_BoldLost ==
    /\ Processed
    /\ IsColorScale(last)
    /\ last.style.has_bg
    /\ \E k \in DOMAIN trace[i - 1].cells :
          /\ k \in DOMAIN before.cells
          /\ before.cells[k].alias > 0
          /\ rules.list[before.cells[k].alias].style.has_bold
          /\ rules.list[before.cells[k].alias].style.bold
          /\ OnlyBackground(cells[k])
          /\ cells[k].own.bg_color # last.style.bg_color

\* ---------------------------------------------------------------------------
\* What one rule may touch
\* ---------------------------------------------------------------------------
\* the rule the latest step was about: the one processed, or the one that raised
Stepped == IF pc = "raised" THEN rules.list[i] ELSE rules.list[i - 1]
HasStepped ==
    \/ Processed
    \/ pc = "raised" /\ ~rules.is_none /\ i \in 1..Len(rules.list)
\* every entry of the earlier map is still there, as it was, except at keys
Kept(earlier, later, keys) ==
    /\ DOMAIN earlier \subseteq DOMAIN later
    /\ \A k \in DOMAIN earlier : k \notin keys => later[k] = earlier[k]
    /\ \A k \in DOMAIN later : k \notin keys => k \in DOMAIN earlier
OwnColumnKeys(r) ==
    IF Applies(r)
    THEN {<<q + 1, ColumnIndex(r.target_column) - 1>> : q \in RowPositions}
    ELSE {}

\* C29: each rule writes only inside its scope and column: a row-scope rule
\* leaves cells as it was; a cell-scope rule leaves rows as it was and touches
\* only cells keys of the column of its target_column; a rule of another scope
\* touches neither; no key of rows or cells is ever removed, and the warnings
\* the rule found are still there, in order, before those it appended.
C29_WritesWithinScope ==
    HasStepped =>
        /\ ScopeOf(Stepped) = "row" =>
              /\ cells = before.cells
              /\ Kept(before.rows, rows, RowPositions)
        /\ ScopeOf(Stepped) = "cell" =>
              /\ rows = before.rows
              /\ Kept(before.cells, cells, OwnColumnKeys(Stepped))
        /\ ScopeOf(Stepped) \notin {"row", "cell"} =>
              /\ rows = before.rows
              /\ cells = before.cells
        /\ Len(before.warnings) <= Len(warnings)
        /\ SubSeq(warnings, 1, Len(before.warnings)) = before.warnings

\* a cell rule has replaced an entry an earlier rule wrote in its column and
\* appended a warning to the one it found
C29_EntryReplacedWarningsKept ==
    /\ Processed
    /\ ScopeOf(last) = "cell"
    /\ \E k \in DOMAIN before.cells : cells[k] # before.cells[k]
    /\ before.warnings # <<>>
    /\ Len(warnings) > Len(before.warnings)

\* ---------------------------------------------------------------------------
\* Scope and condition type that are not handled together
\* ---------------------------------------------------------------------------
KnownTypes == {"contains", "equals", "numeric", "date_compare",
               "date_compare_column", "color_scale"}
Unhandled(r) ==
    \/ ScopeOf(r) \notin {"row", "cell"}
    \/ /\ Applies(r)
       /\ ScopeOf(r) = "row"
       /\ r.condition.type \in {"numeric", "date_compare_column", "color_scale"}
    \/ /\ Applies(r)
       /\ ScopeOf(r) \in {"row", "cell"}
       /\ r.condition.type \notin KnownTypes
SameCondition(r1, r2) ==
    r1.target_column = r2.target_column /\ r1.condition = r2.condition

\* C30: a rule whose scope and condition type are not handled together is a
\* silent no-op: a row-scope rule of type numeric, date_compare_column or
\* color_scale, a rule of either scope with an unknown type, and a rule whose
\* scope is neither 'row' nor 'cell' leave rows, cells and warnings as they
\* were.
C30_UnhandledIsNoOp ==
    (Processed /\ Unhandled(last)) =>
        /\ rows = before.rows
        /\ cells = before.cells
        /\ warnings = before.warnings
        /\ trace[i - 1] = [rows |-> <<>>, cells |-> <<>>]

\* a numeric, column-date or colour-scale condition placed in row scope wrote
\* nothing, and the same condition on the same column in cell scope then
\* styled cells
C30_RowScopeSilentCellScopeStyles ==
    /\ pc \in {"loop", "done"}
    /\ i = 3
    /\ Unhandled(rules.list[1])
    /\ ScopeOf(rules.list[1]) = "row"
    /\ ScopeOf(rules.list[2]) = "cell"
    /\ SameCondition(rules.list[1], rules.list[2])
    /\ trace[1] = [rows |-> <<>>, cells |-> <<>>]
    /\ trace[2].cells # <<>>
    /\ rows = <<>>

====
